---- MODULE Spec2Model ----
(***************************************************************************)
(* Verification model of the ad-source core of upspring: the brand cache   *)
(* store, the identity resolver, the retry/backoff controller and the      *)
(* fetch orchestrators of MetaAdsService (server/src/types/index.ts) and   *)
(* GoogleAdsService (server/src/services/google-ads.ts).                   *)
(*                                                                         *)
(* JavaScript strings are sequences of one-character strings.  A missing   *)
(* string field is the value undefined below; like the empty string it is  *)
(* falsy.  null is the record Null.                                        *)
(***************************************************************************)
EXTENDS Integers, Sequences, FiniteSets, TLC

VARIABLES
    svc,                \* the service the requests of this run go to: "meta" or "google"
    brandsCache,        \* MetaAdsService.brandsCache (static): Null or [brands, meta]
    advertisersCache,   \* GoogleAdsService.advertisersCache (static): Null or [advertisers, meta]
    cacheFile,          \* content of data/brands.json
    fileWrites,         \* number of fs.writeFileSync calls made so far
    cacheOp,            \* the last cache-store operation and what it returned
    rAds, rTerm,        \* arguments of one findBestMatchingPage call
    rResult,            \* what that call returned
    config,             \* this.config of the service instance
    pc,                 \* where the request is: "idle", "call" (actor call awaited),
                        \* "sleep" (backoff awaited), "returned" / "thrown"
                        \* (runActorWithRetry settled), "done"
    mode,               \* "retry": a bare runActorWithRetry call; "cold" / "byId":
                        \* the path fetchAdsByBrand took
    attempt,            \* parameter attempt of the current runActorWithRetry frame
    outcomes,           \* what each actor call so far returned or threw
    waits,              \* the delays slept so far, in order
    run,                \* the ActorRun that runActorWithRetry returned
    thrown,             \* the error that runActorWithRetry threw
    req,                \* arguments of fetchAdsByBrand: brandName, options.maxAds
    cached,             \* what the cache lookup at the start of the request returned
    actorInput,         \* what the actor is asked to scrape in this request
    rawAds,             \* [items |-> the items read from the dataset], Null before that
    result,             \* the FetchAdsResult the request resolved with
    hist,               \* history of the request: the cache at its start, the
                        \* resolver's answer, the cache saves it made
    nRaw,               \* the raw record handed to normalizeAd
    nOut,               \* the Ads the calls of normalizeAd on nRaw returned, in order
    nNow,               \* what Date.now() returned last
    cReqs,              \* the fetchAdsByBrand requests running in one process
    cSaves              \* the cache saves those requests made, in order

cacheVars == <<svc, brandsCache, advertisersCache, cacheFile, fileWrites, cacheOp>>
resolverVars == <<rAds, rTerm, rResult>>
retryVars == <<config, pc, mode, attempt, outcomes, waits, run, thrown>>
requestVars == <<req, cached, actorInput, rawAds, result, hist>>
normalizerVars == <<nRaw, nOut, nNow>>
concurrentVars == <<cReqs, cSaves>>
vars == <<cacheVars, resolverVars, retryVars, requestVars, normalizerVars,
          concurrentVars>>

(***************************************************************************)
(* Bounds of the model.                                                    *)
(***************************************************************************)
MaxTermLen == 2        \* longest search term built from TermChars
MaxFileWrites == 1     \* cap on the number of file writes in SpecCache
MaxResolverAds == 3    \* longest ad list handed to findBestMatchingPage
MaxRetries == 5        \* largest retryConfig.maxRetries tried

----------------------------------------------------------------------------
(***************************************************************************)
(* Strings.                                                                *)
(***************************************************************************)
undefined == <<"#undefined">>
Null == [null |-> TRUE]

Truthy(v) == v # undefined /\ v # <<>>

\* a || b on string values
Or(a, b) == IF Truthy(a) THEN a ELSE b

SeqsUpTo(S, n) == UNION {[1..k -> S] : k \in 0..n}

IsSpace(c) == c = " "

\* String.prototype.toLowerCase, one character
LowerChar(c) ==
    CASE c = "A" -> "a"
      [] c = "B" -> "b"
      [] c = "C" -> "c"
      [] c = "D" -> "d"
      [] c = "E" -> "e"
      [] c = "I" -> "i"
      [] c = "N" -> "n"
      [] c = "O" -> "o"
      [] c = "T" -> "t"
      [] c = "V" -> "v"
      [] OTHER -> c

toLowerCase(s) == [i \in 1..Len(s) |-> LowerChar(s[i])]

RECURSIVE trimStart(_)
trimStart(s) ==
    IF s = <<>> THEN s
    ELSE IF IsSpace(Head(s)) THEN trimStart(Tail(s)) ELSE s

RECURSIVE trimEnd(_)
trimEnd(s) ==
    IF s = <<>> THEN s
    ELSE IF IsSpace(s[Len(s)]) THEN trimEnd(SubSeq(s, 1, Len(s) - 1)) ELSE s

\* String.prototype.trim
trim(s) == trimEnd(trimStart(s))

\* String.prototype.startsWith / includes
startsWith(s, t) == Len(t) <= Len(s) /\ SubSeq(s, 1, Len(t)) = t

includes(s, t) ==
    \E i \in 0..(Len(s) - Len(t)) : SubSeq(s, i + 1, i + Len(t)) = t

----------------------------------------------------------------------------
(***************************************************************************)
(* DEFAULT_CONFIG of MetaAdsService, and the values the variables of a     *)
(* component have in the specifications that do not use it.                *)
(***************************************************************************)
DefaultMaxRetries == 3
DefaultBaseDelayMs == 1000
DefaultMaxDelayMs == 30000
DefaultMaxAds == 50

DEFAULT_CONFIG ==
    [maxRetries |-> DefaultMaxRetries, baseDelayMs |-> DefaultBaseDelayMs,
     maxDelayMs |-> DefaultMaxDelayMs, defaultMaxAds |-> DefaultMaxAds]

RetryIdle ==
    /\ config = DEFAULT_CONFIG
    /\ pc = "idle" /\ mode = "none" /\ attempt = 0
    /\ outcomes = <<>> /\ waits = <<>> /\ run = Null /\ thrown = Null

ResolverIdle == rAds = <<>> /\ rTerm = <<>> /\ rResult = [state |-> "idle"]

RequestIdle ==
    /\ req = Null /\ cached = Null /\ actorInput = Null
    /\ rawAds = Null /\ result = Null /\ hist = Null

NormalizerIdle == nRaw = Null /\ nOut = <<>> /\ nNow = 0

ConcurrentIdle == cReqs = <<>> /\ cSaves = <<>>

----------------------------------------------------------------------------
(***************************************************************************)
(* Plain JavaScript objects used as maps.  A property read obj[key] that   *)
(* finds no own property continues on Object.prototype; of the names       *)
(* defined there only "constructor" and "__proto__" are all lower case,    *)
(* so only they can be the result of toLowerCase().                        *)
(***************************************************************************)
Str_constructor == <<"c","o","n","s","t","r","u","c","t","o","r">>
Str_Constructor == <<"C","o","n","s","t","r","u","c","t","o","r">>
Str_proto == <<"_","_","p","r","o","t","o","_","_">>
Str_Object == <<"O","b","j","e","c","t">>

EmptyMap == [k \in {} |-> Null]

\* Object.prototype.constructor is the function Object: no pageId, no
\* advertiserId, and Function.prototype.name is "Object";
\* Object.prototype.__proto__ reads as Object.prototype itself
ObjectPrototype(key) ==
    IF key = Str_constructor
    THEN [inherited |-> "constructor", pageId |-> undefined,
          advertiserId |-> undefined, name |-> Str_Object]
    ELSE [inherited |-> "__proto__", pageId |-> undefined,
          advertiserId |-> undefined, name |-> undefined]

\* obj[key] || null
GetOrNull(obj, key) ==
    IF key \in DOMAIN obj THEN obj[key]
    ELSE IF key \in {Str_constructor, Str_proto} THEN ObjectPrototype(key)
    ELSE Null

\* Object.keys(obj).length
KeyCount(obj) == Cardinality(DOMAIN obj)

----------------------------------------------------------------------------
(***************************************************************************)
(* The cache file data/brands.json, shared by both services.               *)
(*   [kind |-> "missing"]   no file                                        *)
(*   [kind |-> "corrupt"]   not JSON                                       *)
(*   [kind |-> "json", root |-> r, entries |-> m, meta |-> n]              *)
(*        a JSON object whose entry map is stored under the property r     *)
(*        ("brands" or "advertisers"; "none": neither is there)            *)
(***************************************************************************)
NoMeta == -1

JsonFile(root, entries, meta) ==
    [kind |-> "json", root |-> root, entries |-> entries, meta |-> meta]

\* readFileSync + JSON.parse succeed
Parses(file) == file.kind = "json"

\* MetaAdsService.loadBrandsCache: the value it returns and leaves in
\* MetaAdsService.brandsCache.  Object.keys(parsed.brands) throws when the
\* parsed object has no brands property, which ends in the catch branch.
loadBrandsCache(mem, file) ==
    IF mem # Null THEN mem
    ELSE IF Parses(file) /\ file.root = "brands"
         THEN [brands |-> file.entries, meta |-> file.meta]
         ELSE [brands |-> EmptyMap, meta |-> NoMeta]

\* the key both services compute: brandName.toLowerCase().trim()
NormalizeKey(term) == trim(toLowerCase(term))

Mutant_lookupBrandInCache(mem, file, brandName) ==
    LET cache == loadBrandsCache(mem, file)
    IN  <<GetOrNull(cache.brands, trim(brandName)), cache>>

\* MetaAdsService.lookupBrandInCache: <<result, brandsCache afterwards>>
lookupBrandInCache(mem, file, brandName) ==
    LET cache == loadBrandsCache(mem, file)
    IN  <<GetOrNull(cache.brands, NormalizeKey(brandName)), cache>>

Mutant_saveBrandToCache(mem, file, searchTerm, pageId, pageName, writeOk) ==
    LET cache == loadBrandsCache(mem, file)
        normalizedKey == NormalizeKey(searchTerm)
        brands2 == [k \in DOMAIN cache.brands \cup {normalizedKey} |->
                      IF k = normalizedKey
                      THEN [pageId |-> pageId, name |-> pageName]
                      ELSE cache.brands[k]]
        cache2 == [brands |-> brands2, meta |-> KeyCount(brands2)]
    IN  [mem |-> cache2,
         file |-> IF writeOk THEN JsonFile("brands", cache2.brands, cache2.meta)
                  ELSE file,
         wrote |-> TRUE]

Mutant2_saveBrandToCache(mem, file, searchTerm, pageId, pageName, writeOk) ==
    LET cache == loadBrandsCache(mem, file)
        normalizedKey == NormalizeKey(searchTerm)
        entry == [pageId |-> pageId, name |-> pageName]
    IN  IF GetOrNull(cache.brands, normalizedKey) # Null
        THEN [mem |-> cache, file |-> file, wrote |-> FALSE]
        ELSE LET brands2 == [k \in DOMAIN cache.brands \cup {normalizedKey} |->
                               IF k = normalizedKey THEN entry ELSE cache.brands[k]]
                 cache2 == [brands |-> brands2, meta |-> KeyCount(brands2)]
             IN  [mem |-> cache2,
                  file |-> IF writeOk
                           THEN JsonFile("brands", (normalizedKey :> entry), 1)
                           ELSE file,
                  wrote |-> TRUE]

\* MetaAdsService.saveBrandToCache.  writeOk: fs.writeFileSync does not
\* throw.  The entry and the metadata are set on the object that
\* MetaAdsService.brandsCache already refers to, before the file is written.
saveBrandToCache(mem, file, searchTerm, pageId, pageName, writeOk) ==
    LET cache == loadBrandsCache(mem, file)
        normalizedKey == NormalizeKey(searchTerm)
    IN  IF GetOrNull(cache.brands, normalizedKey) # Null
        THEN [mem |-> cache, file |-> file, wrote |-> FALSE]
        ELSE LET brands2 == [k \in DOMAIN cache.brands \cup {normalizedKey} |->
                               IF k = normalizedKey
                               THEN [pageId |-> pageId, name |-> pageName]
                               ELSE cache.brands[k]]
                 cache2 == [brands |-> brands2, meta |-> KeyCount(brands2)]
             IN  [mem |-> cache2,
                  file |-> IF writeOk
                           THEN JsonFile("brands", cache2.brands, cache2.meta)
                           ELSE file,
                  wrote |-> TRUE]

\* GoogleAdsService.loadCache: the value left in advertisersCache
loadCache(mem, file) ==
    IF mem # Null THEN mem
    ELSE IF Parses(file) /\ file.root \in {"brands", "advertisers"}
         THEN [advertisers |-> file.entries, meta |-> file.meta]
         ELSE IF Parses(file)
              THEN [advertisers |-> EmptyMap, meta |-> file.meta]
              ELSE [advertisers |-> EmptyMap, meta |-> NoMeta]

\* GoogleAdsService.lookupInCache
lookupInCache(mem, brandName) ==
    IF mem = Null THEN Null
    ELSE GetOrNull(mem.advertisers, NormalizeKey(brandName))

\* GoogleAdsService.saveToCache followed by saveCache
saveToCache(mem, file, brandName, advertiserId, displayName, domain, writeOk) ==
    LET cache == IF mem = Null THEN [advertisers |-> EmptyMap, meta |-> NoMeta]
                 ELSE mem
        key == NormalizeKey(brandName)
        adv2 == [k \in DOMAIN cache.advertisers \cup {key} |->
                   IF k = key
                   THEN [advertiserId |-> advertiserId, name |-> displayName,
                         domain |-> domain]
                   ELSE cache.advertisers[k]]
        cache2 == [advertisers |-> adv2, meta |-> KeyCount(adv2)]
    IN  [mem |-> cache2,
         file |-> IF writeOk
                  THEN JsonFile("advertisers", cache2.advertisers, cache2.meta)
                  ELSE file,
         wrote |-> TRUE]

----------------------------------------------------------------------------
(***************************************************************************)
(* Identity resolver of the Meta service.  A normalized ad is a record     *)
(* with at least the fields pageId and brandName.                          *)
(***************************************************************************)
ExactScore == 1000
PrefixScore == 500
ContainsScore == 100
CountCap == 50

Min(a, b) == IF a <= b THEN a ELSE b

\* the Map built by the first loop of findBestMatchingPage, as the sequence
\* of its entries in insertion order.  The loop visits the ads from first
\* to last; the visits of a long array are evaluated half by half, the
\* first half before the second.
RECURSIVE GroupByPage(_, _)
GroupByPage(ads, pageMap) ==
    IF ads = <<>> THEN pageMap
    ELSE IF Len(ads) = 1
    THEN LET ad == ads[1]
             hit == {i \in 1..Len(pageMap) : pageMap[i].pageId = ad.pageId}
         IN  IF ~Truthy(ad.pageId) THEN pageMap
             ELSE IF hit # {}
                  THEN [pageMap EXCEPT ![CHOOSE i \in hit : TRUE].count = @ + 1]
                  ELSE Append(pageMap, [pageId |-> ad.pageId,
                                        pageName |-> Or(ad.brandName, <<>>),
                                        count |-> 1])
    ELSE LET half == Len(ads) \div 2
             rest == SubSeq(ads, half + 1, Len(ads))
             visited == GroupByPage(SubSeq(ads, 1, half), pageMap)
         IN  IF visited = <<>> THEN GroupByPage(rest, <<>>)
             ELSE GroupByPage(rest, visited)

Mutant_NameScore(nameLower, searchLower) ==
    IF nameLower = searchLower THEN ExactScore
    ELSE IF startsWith(nameLower, searchLower) \/ startsWith(searchLower, nameLower)
         THEN PrefixScore
         ELSE ContainsScore

\* the nameScore computed in the second loop
NameScore(nameLower, searchLower) ==
    IF nameLower = searchLower THEN ExactScore
    ELSE IF startsWith(nameLower, searchLower) \/ startsWith(searchLower, nameLower)
         THEN PrefixScore
         ELSE IF includes(nameLower, searchLower) \/ includes(searchLower, nameLower)
              THEN ContainsScore
              ELSE 0

RECURSIVE BestOf(_, _, _, _)
RECURSIVE Mutant_BestOf(_, _, _, _)
Mutant_BestOf(pageMap, i, searchLower, bestMatch) ==
    IF i > Len(pageMap) THEN bestMatch
    ELSE LET e == pageMap[i]
             nameScore == NameScore(toLowerCase(e.pageName), searchLower)
             totalScore == nameScore + Min(e.count, CountCap)
         IN  IF nameScore = 0
             THEN Mutant_BestOf(pageMap, i + 1, searchLower, bestMatch)
             ELSE IF bestMatch = Null \/ totalScore >= bestMatch.score
                  THEN Mutant_BestOf(pageMap, i + 1, searchLower,
                              [pageId |-> e.pageId, pageName |-> e.pageName,
                               score |-> totalScore, count |-> e.count])
                  ELSE Mutant_BestOf(pageMap, i + 1, searchLower, bestMatch)

RECURSIVE Mutant2_BestOf(_, _, _, _)
Mutant2_BestOf(pageMap, i, searchLower, bestMatch) ==
    IF i > Len(pageMap) THEN bestMatch
    ELSE LET e == pageMap[i]
             nameScore == NameScore(toLowerCase(e.pageName), searchLower)
             totalScore == nameScore + e.count
         IN  IF nameScore = 0
             THEN Mutant2_BestOf(pageMap, i + 1, searchLower, bestMatch)
             ELSE IF bestMatch = Null \/ totalScore > bestMatch.score
                  THEN Mutant2_BestOf(pageMap, i + 1, searchLower,
                              [pageId |-> e.pageId, pageName |-> e.pageName,
                               score |-> totalScore, count |-> e.count])
                  ELSE Mutant2_BestOf(pageMap, i + 1, searchLower, bestMatch)

\* the second loop: bestMatch after the entries pageMap[i..]
BestOf(pageMap, i, searchLower, bestMatch) ==
    IF i > Len(pageMap) THEN bestMatch
    ELSE LET e == pageMap[i]
             nameScore == NameScore(toLowerCase(e.pageName), searchLower)
             totalScore == nameScore + Min(e.count, CountCap)
         IN  IF nameScore = 0 THEN BestOf(pageMap, i + 1, searchLower, bestMatch)
             ELSE IF bestMatch = Null \/ totalScore > bestMatch.score
                  THEN BestOf(pageMap, i + 1, searchLower,
                              [pageId |-> e.pageId, pageName |-> e.pageName,
                               score |-> totalScore, count |-> e.count])
                  ELSE BestOf(pageMap, i + 1, searchLower, bestMatch)

\* MetaAdsService.findBestMatchingPage
findBestMatchingPage(ads, searchTerm) ==
    LET pageMap == GroupByPage(ads, <<>>)
        bestMatch == BestOf(pageMap, 1, toLowerCase(searchTerm), Null)
    IN  IF pageMap = <<>> \/ bestMatch = Null THEN Null
        ELSE [pageId |-> bestMatch.pageId, pageName |-> bestMatch.pageName]

----------------------------------------------------------------------------
(***************************************************************************)
(* Retry/backoff controller of the Meta service.                           *)
(*                                                                         *)
(* An actor call either returns a run with a status or throws.  A thrown   *)
(* value is [class, code, msg, at]: class "ApifyError" (the service's own  *)
(* error class, with a code), "Error" (any other Error, e.g. from the      *)
(* client library) or "value" (a thrown non-Error); msg is the set of the  *)
(* keywords, among those the service looks for, that the lowercased        *)
(* message contains; at is the attempt that created the object.            *)
(***************************************************************************)
RunStatuses == {"READY", "RUNNING", "SUCCEEDED", "FAILED", "TIMING-OUT",
                "TIMED-OUT", "ABORTING", "ABORTED"}

ApifyError(code, at) == [class |-> "ApifyError", code |-> code, msg |-> {}, at |-> at]

Mutant_isRetryableError(error) ==
    IF error.class = "ApifyError"
    THEN error.code \in {"NETWORK_ERROR", "TIMEOUT", "RUN_FAILED"}
    ELSE IF error.class = "Error"
         THEN error.msg \cap {"network", "timeout", "econnreset", "enotfound", "socket"} # {}
         ELSE FALSE

Mutant2_isRetryableError(error) ==
    IF error.class = "ApifyError"
    THEN error.code \in {"NETWORK_ERROR"}
    ELSE IF error.class = "Error"
         THEN error.msg \cap {"network", "timeout", "econnreset", "enotfound", "socket"} # {}
         ELSE FALSE

\* MetaAdsService.isRetryableError
isRetryableError(error) ==
    IF error.class = "ApifyError"
    THEN error.code \in {"NETWORK_ERROR", "TIMEOUT"}
    ELSE IF error.class = "Error"
         THEN error.msg \cap {"network", "timeout", "econnreset", "enotfound", "socket"} # {}
         ELSE FALSE

\* MetaAdsService.isRateLimitError
isRateLimitError(error) ==
    IF error.class = "ApifyError"
    THEN error.code = "RATE_LIMIT"
    ELSE IF error.class = "Error"
         THEN error.msg \cap {"rate limit", "too many requests", "429"} # {}
         ELSE FALSE

Pow2(n) == IF n = 0 THEN 1 ELSE 2 ^ n

Mutant_BackoffDelay(cfg, n, error) ==
    LET delay == Min(cfg.baseDelayMs, cfg.maxDelayMs)
    IN  IF isRateLimitError(error) THEN delay * 2 ELSE delay

Mutant2_BackoffDelay(cfg, n, error) ==
    LET delay == Min(cfg.baseDelayMs * Pow2(n - 1), cfg.maxDelayMs)
    IN  IF isRateLimitError(error) THEN Min(delay * 2, cfg.maxDelayMs) ELSE delay

\* actualDelay of the n-th attempt that failed with error
BackoffDelay(cfg, n, error) ==
    LET delay == Min(cfg.baseDelayMs * Pow2(n - 1), cfg.maxDelayMs)
    IN  IF isRateLimitError(error) THEN delay * 2 ELSE delay

Mutant_GivesUp(cfg, n, error) ==
    n > cfg.maxRetries \/ (~isRetryableError(error) /\ ~isRateLimitError(error))

\* the condition under which the catch block rethrows
GivesUp(cfg, n, error) ==
    n >= cfg.maxRetries \/ (~isRetryableError(error) /\ ~isRateLimitError(error))

\* what the try block of runActorWithRetry makes of a returned run:
\* the error it throws, or Null when it returns the run
StatusError(status, n) ==
    IF status = "FAILED" THEN ApifyError("RUN_FAILED", n)
    ELSE IF status = "TIMED-OUT" THEN ApifyError("TIMEOUT", n)
    ELSE Null

\* outcomes of one actor call
Returns(status) == [kind |-> "run", status |-> status]
Throws(class, msg) == [kind |-> "throw", class |-> class, msg |-> msg]

ThrownErrors ==
    { Throws("Error", {"network"}), Throws("Error", {"timeout"}),
      Throws("Error", {"rate limit"}), Throws("Error", {"network", "429"}),
      Throws("Error", {"not found"}), Throws("Error", {}),
      Throws("value", {}) }

RetryOutcomes == {Returns(st) : st \in RunStatuses} \cup ThrownErrors

\* the error object the catch block of attempt n sees for outcome o
CaughtError(o, n) ==
    IF o.kind = "run" THEN StatusError(o.status, n)
    ELSE [class |-> o.class, code |-> "none", msg |-> o.msg, at |-> n]

\* one pass through runActorWithRetry: the awaited actor call settles with
\* outcome o, and the function runs on to its return, its throw or its sleep
RunActor(o) ==
    LET error == CaughtError(o, attempt)
    IN  /\ pc = "call"
        /\ svc = "meta"
        /\ outcomes' = Append(outcomes, o)
        /\ IF error = Null
           THEN /\ pc' = "returned"
                /\ run' = [status |-> o.status, at |-> attempt]
                /\ UNCHANGED <<waits, thrown>>
           ELSE IF GivesUp(config, attempt, error)
                THEN /\ pc' = "thrown"
                     /\ thrown' = error
                     /\ UNCHANGED <<waits, run>>
                ELSE /\ pc' = "sleep"
                     /\ waits' = Append(waits, BackoffDelay(config, attempt, error))
                     /\ UNCHANGED <<run, thrown>>
        /\ UNCHANGED <<config, mode, attempt>>

\* the sleep is over: return this.runActorWithRetry(input, timeoutMs, attempt + 1)
SleepDone ==
    /\ pc = "sleep"
    /\ pc' = "call"
    /\ attempt' = attempt + 1
    /\ UNCHANGED <<config, mode, outcomes, waits, run, thrown>>

----------------------------------------------------------------------------
(***************************************************************************)
(* Fetch orchestrators.  Of a raw dataset item the model keeps the fields  *)
(* that decide identity: pageID, page_id, pageName, page_name and          *)
(* snapshot.page_name of a Meta item, advertiserId and advertiserName of   *)
(* a Google item; of a normalized Ad it keeps pageId and brandName.  A     *)
(* FetchAdsResult is a record with exactly the properties the code sets,   *)
(* error and metadata left out.                                            *)
(***************************************************************************)
\* obj.f of an object that may lack the property f
Prop(obj, f) == IF f \in DOMAIN obj THEN obj[f] ELSE undefined

\* { ...r, ...s }
Spread(r, s) ==
    [f \in DOMAIN r \cup DOMAIN s |-> IF f \in DOMAIN s THEN s[f] ELSE r[f]]

\* Array.prototype.slice(0, n)
slice(s, n) == SubSeq(s, 1, Min(Len(s), n))

\* options.maxAds || this.config.defaultMaxAds, where options.maxAds is 0
\* when the caller gives none
EffectiveMaxAds(cfg, optMaxAds) ==
    IF optMaxAds # 0 THEN optMaxAds ELSE cfg.defaultMaxAds

\* MetaAdsService.normalizeAd
normalizeAd(raw, brandName) ==
    [brandName |-> Or(Or(Or(raw.pageName, raw.page_name), raw.snapshotPageName),
                      brandName),
     pageId |-> Or(raw.pageID, raw.page_id)]

\* rawAds.map(rawAd => this.normalizeAd(rawAd, trimmedBrandName))
NormalizeAll(items, brandName) ==
    [i \in 1..Len(items) |-> normalizeAd(items[i], brandName)]

\* lowerMessage.includes(kw), on the keyword set of an error message
Mentions(error, kw) ==
    \/ kw \in error.msg
    \/ kw = "limit" /\ error.msg \cap {"rate limit", "usage limit"} # {}

\* the errorCode MetaAdsService.handleError derives
ErrorCodeOf(error) ==
    IF error.class = "ApifyError" THEN error.code
    ELSE IF error.class = "Error"
    THEN IF \/ Mentions(error, "out of") /\ Mentions(error, "token")
            \/ Mentions(error, "credit")
            \/ Mentions(error, "usage limit")
            \/ Mentions(error, "quota")
            \/ /\ Mentions(error, "insufficient")
               /\ Mentions(error, "credit") \/ Mentions(error, "token")
            \/ /\ Mentions(error, "exceeded")
               /\ Mentions(error, "limit") \/ Mentions(error, "quota")
         THEN "USAGE_QUOTA_EXCEEDED"
         ELSE IF Mentions(error, "timeout") THEN "TIMEOUT"
         ELSE IF Mentions(error, "rate limit") \/ Mentions(error, "429")
              THEN "RATE_LIMIT"
         ELSE IF Mentions(error, "not found") \/ Mentions(error, "404")
              THEN "ACTOR_NOT_FOUND"
         ELSE IF Mentions(error, "unauthorized") \/ Mentions(error, "401")
              THEN "INVALID_API_KEY"
         ELSE "UNKNOWN"
    ELSE "UNKNOWN"

Mutant_handleError(error) ==
    IF error.class = "ApifyError"
    THEN [success |-> FALSE, ads |-> <<>>, errorCode |-> error.code]
    ELSE [success |-> FALSE, ads |-> <<>>]

\* MetaAdsService.handleError
handleError(error) ==
    [success |-> FALSE, ads |-> <<>>, errorCode |-> ErrorCodeOf(error)]

\* the result both services return for an empty or blank brand name, and
\* fetchAdsByPageId for an empty page id
RequiredResult == [success |-> FALSE, ads |-> <<>>, errorCode |-> "NO_RESULTS"]

\* what the cache-hit branch adds to the result of the fetch by id
CachedProps(entry) ==
    [brandSource |-> "cached", verifiedBrandName |-> Prop(entry, "name")]

NotVerified == [brandSource |-> "not_verified"]

Mutant2_MetaSearchResult(cfg, optMaxAds, normalizedAds, bestMatch) ==
    IF normalizedAds = <<>> \/ bestMatch = Null
    THEN [success |-> TRUE, ads |-> <<>>, totalFound |-> 0,
          brandSource |-> "not_verified"]
    ELSE LET OfBestMatch(ad) == ad.pageId = bestMatch.pageId
             filteredAds == SelectSeq(normalizedAds, OfBestMatch)
             finalAds == slice(filteredAds, EffectiveMaxAds(cfg, optMaxAds))
         IN  [success |-> TRUE, ads |-> finalAds,
              totalFound |-> Len(finalAds), brandSource |-> "discovered",
              verifiedBrandName |-> bestMatch.pageName]

Mutant_MetaSearchResult(cfg, optMaxAds, normalizedAds, bestMatch) ==
    IF normalizedAds = <<>> \/ bestMatch = Null
    THEN [success |-> TRUE, ads |-> <<>>, totalFound |-> 0,
          brandSource |-> "not_verified"]
    ELSE LET OfBestMatch(ad) == ad.pageId = bestMatch.pageId
             firstAds == slice(normalizedAds, EffectiveMaxAds(cfg, optMaxAds))
             finalAds == SelectSeq(firstAds, OfBestMatch)
         IN  [success |-> TRUE, ads |-> finalAds,
              totalFound |-> Len(finalAds), brandSource |-> "discovered",
              verifiedBrandName |-> bestMatch.pageName]

\* the result MetaAdsService.fetchAdsByBrand builds from the dataset of a
\* search by name, bestMatch being what findBestMatchingPage returned
MetaSearchResult(cfg, optMaxAds, normalizedAds, bestMatch) ==
    IF normalizedAds = <<>> \/ bestMatch = Null
    THEN [success |-> TRUE, ads |-> <<>>, totalFound |-> 0,
          brandSource |-> "not_verified"]
    ELSE LET OfBestMatch(ad) == ad.pageId = bestMatch.pageId
             filteredAds == SelectSeq(normalizedAds, OfBestMatch)
             finalAds == slice(filteredAds, EffectiveMaxAds(cfg, optMaxAds))
         IN  [success |-> TRUE, ads |-> finalAds,
              totalFound |-> Len(filteredAds), brandSource |-> "discovered",
              verifiedBrandName |-> bestMatch.pageName]

\* the result MetaAdsService.fetchAdsByPageId builds from the dataset
MetaPageResult(trimmedPageId, items) ==
    LET normalizedAds ==
            [i \in 1..Len(items) |->
               normalizeAd(items[i], Or(items[i].pageName, trimmedPageId))]
    IN  [success |-> TRUE, ads |-> normalizedAds,
         totalFound |-> Len(normalizedAds)]

\* GoogleAdsService.normalizeAd
googleNormalizeAd(raw, searchTerm) ==
    [brandName |-> Or(raw.advertiserName, searchTerm),
     pageId |-> Or(raw.advertiserId, <<>>)]

GoogleNormalizeAll(items, searchTerm) ==
    [i \in 1..Len(items) |-> googleNormalizeAd(items[i], searchTerm)]

Mutant_GoogleSearchResult(cfg, optMaxAds, trimmedBrandName, items) ==
    IF items = <<>>
    THEN [success |-> TRUE, ads |-> <<>>, totalFound |-> 0,
          brandSource |-> "not_verified"]
    ELSE LET normalizedAds == GoogleNormalizeAll(items, trimmedBrandName)
             advertiserName == Or(items[1].advertiserName, trimmedBrandName)
             finalAds == slice(normalizedAds, EffectiveMaxAds(cfg, optMaxAds))
         IN  [success |-> TRUE, ads |-> finalAds,
              totalFound |-> Len(normalizedAds),
              brandSource |-> "not_verified",
              verifiedBrandName |-> advertiserName]

\* the result GoogleAdsService.fetchAdsByBrand builds from the dataset of
\* a search by domain
GoogleSearchResult(cfg, optMaxAds, trimmedBrandName, items) ==
    IF items = <<>>
    THEN [success |-> TRUE, ads |-> <<>>, totalFound |-> 0,
          brandSource |-> "not_verified"]
    ELSE LET normalizedAds == GoogleNormalizeAll(items, trimmedBrandName)
             advertiserId == items[1].advertiserId
             advertiserName == Or(items[1].advertiserName, trimmedBrandName)
             finalAds == slice(normalizedAds, EffectiveMaxAds(cfg, optMaxAds))
         IN  [success |-> TRUE, ads |-> finalAds,
              totalFound |-> Len(normalizedAds),
              brandSource |-> IF Truthy(advertiserId) THEN "discovered"
                              ELSE "not_verified",
              verifiedBrandName |-> advertiserName]

\* the result GoogleAdsService.fetchAdsByAdvertiserId builds from the dataset
GoogleAdvertiserResult(cfg, optMaxAds, items) ==
    LET normalizedAds == GoogleNormalizeAll(items, <<>>)
    IN  [success |-> TRUE,
         ads |-> slice(normalizedAds, EffectiveMaxAds(cfg, optMaxAds)),
         totalFound |-> Len(normalizedAds)]

\* the failure results of the Google service
GoogleFailure(code) == [success |-> FALSE, ads |-> <<>>, errorCode |-> code]

Str_com == <<".", "c", "o", "m">>
Str_cocacola_com == <<"c","o","c","a","-","c","o","l","a">> \o Str_com
Str_mcdonalds_com == <<"m","c","d","o","n","a","l","d","s">> \o Str_com
Str_att_com == <<"a","t","t">> \o Str_com

\* domainMap of GoogleAdsService.buildDomain
domainMap ==
    (<<"c","o","c","a","-","c","o","l","a">> :> Str_cocacola_com) @@
    (<<"c","o","c","a"," ","c","o","l","a">> :> Str_cocacola_com) @@
    (<<"m","c","d","o","n","a","l","d","'","s">> :> Str_mcdonalds_com) @@
    (<<"m","c","d","o","n","a","l","d","s">> :> Str_mcdonalds_com) @@
    (<<"a","t","&","t">> :> Str_att_com) @@
    (<<"a","t","t">> :> Str_att_com)

\* the characters the class [a-z0-9] matches
AlnumChars ==
    {"a","b","c","d","e","f","g","h","i","j","k","l","m","n","o","p","q",
     "r","s","t","u","v","w","x","y","z","0","1","2","3","4","5","6","7",
     "8","9"}

\* GoogleAdsService.buildDomain
buildDomain(brandName) ==
    LET key == NormalizeKey(brandName)
        IsAlnum(c) == c \in AlnumChars
    IN  IF key \in DOMAIN domainMap THEN domainMap[key]
        ELSE trim(SelectSeq(toLowerCase(brandName), IsAlnum)) \o Str_com

----------------------------------------------------------------------------
(***************************************************************************)
(* Inputs of the cache-store specification.                                *)
(***************************************************************************)
TermChars == {"a", "A", " "}

\* search terms: every string over TermChars up to MaxTermLen, and the
\* brand name "Constructor" in two spellings
CacheTerms == SeqsUpTo(TermChars, MaxTermLen) \cup {Str_constructor, Str_Constructor}

\* the advertisers a save can name: external id, display name, domain
Advertisers ==
    { [id |-> <<"1">>, name |-> <<"A">>, domain |-> <<"a", ".", "c", "o", "m">>],
      [id |-> <<"2">>, name |-> <<"A", "a">>, domain |-> <<"a", "a", ".", "c", "o", "m">>] }

MetaEntry1 == [pageId |-> <<"1">>, name |-> <<"A">>]
GoogleEntry1 == [advertiserId |-> <<"2">>, name |-> <<"A">>, domain |-> <<"a", ".", "c", "o", "m">>]

\* contents data/brands.json can have when the process starts
InitialFiles ==
    { [kind |-> "missing"], [kind |-> "corrupt"],
      JsonFile("none", EmptyMap, NoMeta),
      JsonFile("brands", EmptyMap, 0),
      JsonFile("brands", (<<"a">> :> MetaEntry1), 1),
      JsonFile("advertisers", (<<"a">> :> GoogleEntry1), 1) }

\* the entries a lookup of the Meta service sees in the current state
MetaBrands == loadBrandsCache(brandsCache, cacheFile).brands

\* the entries a lookup of the Google service sees in the current state
GoogleAdvertisers ==
    IF advertisersCache = Null THEN EmptyMap ELSE advertisersCache.advertisers

----------------------------------------------------------------------------
(***************************************************************************)
(* SpecCache: the two cache stores driven call by call.                    *)
(***************************************************************************)
InitCache ==
    /\ svc \in {"meta", "google"}
    /\ brandsCache = Null
    /\ advertisersCache = Null
    /\ cacheFile \in InitialFiles
    /\ fileWrites = 0
    /\ cacheOp = [op |-> "none"]
    /\ ResolverIdle
    /\ RetryIdle
    /\ RequestIdle
    /\ NormalizerIdle
    /\ ConcurrentIdle

\* this.lookupBrandInCache(term)
MetaLookup(term) ==
    LET r == lookupBrandInCache(brandsCache, cacheFile, term)
    IN  /\ svc = "meta"
        /\ brandsCache' = r[2]
        /\ cacheOp' = [op |-> "lookup", svc |-> "meta", term |-> term,
                       result |-> r[1]]
        /\ UNCHANGED <<svc, advertisersCache, cacheFile, fileWrites, resolverVars, retryVars, requestVars, normalizerVars, concurrentVars>>

\* this.saveBrandToCache(term, pageId, pageName)
MetaSave(term, pageId, pageName, writeOk) ==
    LET r == saveBrandToCache(brandsCache, cacheFile, term, pageId, pageName, writeOk)
    IN  /\ svc = "meta"
        /\ r.wrote => fileWrites < MaxFileWrites
        /\ brandsCache' = r.mem
        /\ cacheFile' = r.file
        /\ fileWrites' = IF r.wrote THEN fileWrites + 1 ELSE fileWrites
        /\ cacheOp' = [op |-> "save", svc |-> "meta", term |-> term,
                       id |-> pageId, name |-> pageName]
        /\ UNCHANGED <<svc, advertisersCache, resolverVars, retryVars, requestVars, normalizerVars, concurrentVars>>

\* new GoogleAdsService(): loadCache()
GoogleConstruct ==
    /\ svc = "google"
    /\ advertisersCache' = loadCache(advertisersCache, cacheFile)
    /\ cacheOp' = [op |-> "construct", svc |-> "google"]
    /\ UNCHANGED <<svc, brandsCache, cacheFile, fileWrites, resolverVars, retryVars, requestVars, normalizerVars, concurrentVars>>

\* this.lookupInCache(term)
GoogleLookup(term) ==
    /\ svc = "google"
    /\ cacheOp' = [op |-> "lookup", svc |-> "google", term |-> term,
                   result |-> lookupInCache(advertisersCache, term)]
    /\ UNCHANGED <<svc, brandsCache, advertisersCache, cacheFile, fileWrites, resolverVars, retryVars, requestVars, normalizerVars, concurrentVars>>

\* this.saveToCache(term, advertiserId, displayName, domain)
GoogleSave(term, advertiserId, displayName, domain, writeOk) ==
    LET r == saveToCache(advertisersCache, cacheFile, term, advertiserId,
                         displayName, domain, writeOk)
    IN  /\ svc = "google"
        /\ fileWrites < MaxFileWrites
        /\ advertisersCache' = r.mem
        /\ cacheFile' = r.file
        /\ fileWrites' = fileWrites + 1
        /\ cacheOp' = [op |-> "save", svc |-> "google", term |-> term,
                       id |-> advertiserId, name |-> displayName]
        /\ UNCHANGED <<svc, brandsCache, resolverVars, retryVars, requestVars, normalizerVars, concurrentVars>>

NextCache ==
    \/ \E t \in CacheTerms : MetaLookup(t)
    \/ \E t \in CacheTerms, a \in Advertisers, ok \in BOOLEAN :
          MetaSave(t, a.id, a.name, ok)
    \/ GoogleConstruct
    \/ \E t \in CacheTerms : GoogleLookup(t)
    \/ \E t \in CacheTerms, a \in Advertisers, ok \in BOOLEAN :
          GoogleSave(t, a.id, a.name, a.domain, ok)

SpecCache == InitCache /\ [][NextCache]_vars

(***************************************************************************)
(* SpecResolver: one call of findBestMatchingPage on a bounded ad list.    *)
(***************************************************************************)
PageNames == { <<"a">>, <<"A">>, <<"a", "b">>, <<"b">>, <<"b", "a">>, <<>> }
PageIds == { <<"1">>, <<"2">> }
ResolverTerms == { <<"a">>, <<"A">>, <<"a", "b">>, <<"b", "a">> }

ResolverAds == [pageId : PageIds \cup {undefined}, brandName : PageNames]

InitResolver ==
    /\ rAds \in SeqsUpTo(ResolverAds, MaxResolverAds)
    /\ rTerm \in ResolverTerms
    /\ rResult = [state |-> "pending"]
    /\ svc = "meta" /\ brandsCache = Null /\ advertisersCache = Null
    /\ cacheFile = [kind |-> "missing"] /\ fileWrites = 0
    /\ cacheOp = [op |-> "none"]
    /\ RetryIdle
    /\ RequestIdle
    /\ NormalizerIdle
    /\ ConcurrentIdle

FindBestMatchingPage ==
    /\ rResult = [state |-> "pending"]
    /\ rResult' = [state |-> "returned",
                   value |-> findBestMatchingPage(rAds, rTerm)]
    /\ UNCHANGED <<rAds, rTerm, cacheVars, retryVars, requestVars, normalizerVars, concurrentVars>>

\* the same call once more
FindBestMatchingPageAgain ==
    /\ rResult.state = "returned"
    /\ rResult' = [state |-> "repeated",
                   value |-> findBestMatchingPage(rAds, rTerm),
                   first |-> rResult.value]
    /\ UNCHANGED <<rAds, rTerm, cacheVars, retryVars, requestVars, normalizerVars, concurrentVars>>

NextResolver == FindBestMatchingPage \/ FindBestMatchingPageAgain

SpecResolver == InitResolver /\ [][NextResolver]_vars

(***************************************************************************)
(* SpecVolume: findBestMatchingPage on the ads of three pages, each with   *)
(* few or many ads, the counts around CountCap.                            *)
(***************************************************************************)
MaxVolume == 60

VolumeCounts == {1, CountCap, CountCap + 1, MaxVolume}
VolumeNames == { <<"A", "b">>, <<"a">>, <<"b">>, <<"c">> }
VolumeTerm == <<"a", "b">>

\* n ads of page pageId with name brandName
AdsOfPage(pageId, brandName, n) ==
    [i \in 1..n |-> [pageId |-> pageId, brandName |-> brandName]]

InitVolume ==
    /\ \E names \in [1..3 -> VolumeNames], counts \in [1..3 -> VolumeCounts] :
          rAds = AdsOfPage(<<"1">>, names[1], counts[1])
                 \o AdsOfPage(<<"2">>, names[2], counts[2])
                 \o AdsOfPage(<<"3">>, names[3], counts[3])
    /\ rTerm = VolumeTerm
    /\ rResult = [state |-> "pending"]
    /\ svc = "meta" /\ brandsCache = Null /\ advertisersCache = Null
    /\ cacheFile = [kind |-> "missing"] /\ fileWrites = 0
    /\ cacheOp = [op |-> "none"]
    /\ RetryIdle
    /\ RequestIdle
    /\ NormalizerIdle
    /\ ConcurrentIdle

SpecVolume == InitVolume /\ [][NextResolver]_vars

(***************************************************************************)
(* SpecRetry: one runActorWithRetry(input, timeoutMs) call under each      *)
(* retry configuration.                                                    *)
(***************************************************************************)
RetryConfigs ==
    [maxRetries : 1..MaxRetries, baseDelayMs : {DefaultBaseDelayMs},
     maxDelayMs : {3000, DefaultMaxDelayMs}, defaultMaxAds : {DefaultMaxAds}]

InitRetry ==
    /\ config \in RetryConfigs
    /\ pc = "call" /\ mode = "retry" /\ attempt = 1
    /\ outcomes = <<>> /\ waits = <<>> /\ run = Null /\ thrown = Null
    /\ svc = "meta" /\ brandsCache = Null /\ advertisersCache = Null
    /\ cacheFile = [kind |-> "missing"] /\ fileWrites = 0
    /\ cacheOp = [op |-> "none"]
    /\ ResolverIdle
    /\ RequestIdle
    /\ NormalizerIdle
    /\ ConcurrentIdle

NextRetry ==
    \/ \E o \in RetryOutcomes :
          RunActor(o) /\ UNCHANGED <<cacheVars, resolverVars, requestVars, normalizerVars, concurrentVars>>
    \/ SleepDone /\ UNCHANGED <<cacheVars, resolverVars, requestVars, normalizerVars, concurrentVars>>

SpecRetry == InitRetry /\ [][NextRetry]_vars

\* SpecRetry with the scheduling the runtime gives: an awaited actor call
\* settles (the client waits at most waitSecs) and a timer fires
FairSpecRetry == SpecRetry /\ WF_vars(NextRetry)

(***************************************************************************)
(* Spec: one fetchAdsByBrand request, of either service, from its call to  *)
(* the result it resolves with.  The steps of a request are the stretches  *)
(* of code between two awaits.                                             *)
(***************************************************************************)
MaxItems == 3          \* longest dataset an actor run leaves
MaxFetchRetries == 2   \* retryConfig.maxRetries of the service instance
ConfiguredMaxAds == 2  \* config.defaultMaxAds the service instance is built with

\* brand names a request is made with
BrandInputs == { <<"a">>, <<" ", "A">>, <<"b">>, Str_Constructor, <<" ">> }

\* options.maxAds: absent, or 1
MaxAdsOptions == {0, 1}

MetaRaw(pageID, page_id, pageName, page_name, snapshotPageName) ==
    [pageID |-> pageID, page_id |-> page_id, pageName |-> pageName,
     page_name |-> page_name, snapshotPageName |-> snapshotPageName]

\* raw items of a Meta dataset
MetaItems ==
    { MetaRaw(<<"1">>, undefined, <<"A">>, undefined, undefined),
      MetaRaw(undefined, <<"2">>, undefined, <<"b">>, undefined),
      MetaRaw(<<"2">>, undefined, undefined, undefined, <<"a", "b">>),
      MetaRaw(<<"1">>, undefined, undefined, undefined, undefined),
      MetaRaw(undefined, undefined, <<"a">>, undefined, undefined) }

\* raw items of a Google dataset
GoogleItems ==
    { [advertiserId |-> <<"1">>, advertiserName |-> <<"A">>],
      [advertiserId |-> <<"2">>, advertiserName |-> <<"b">>],
      [advertiserId |-> undefined, advertiserName |-> <<"a">>],
      [advertiserId |-> <<"1">>, advertiserName |-> undefined] }

\* what dataset(id).listItems() settles with
Listed(items) == [kind |-> "items", items |-> items]
ListThrows == [kind |-> "throw"]

MetaDatasets == {Listed(s) : s \in SeqsUpTo(MetaItems, MaxItems)} \cup {ListThrows}
GoogleDatasets == {Listed(s) : s \in SeqsUpTo(GoogleItems, MaxItems)} \cup {ListThrows}

\* what an actor call settles with
FetchOutcomes ==
    {Returns(st) : st \in {"SUCCEEDED", "FAILED", "TIMED-OUT", "RUNNING"}}
    \cup {Throws("Error", {"network"})}

\* contents data/brands.json can have when the request is made
FetchFiles ==
    { [kind |-> "missing"], [kind |-> "corrupt"],
      JsonFile("none", EmptyMap, NoMeta),
      JsonFile("brands", EmptyMap, 0),
      JsonFile("brands", (<<"a">> :> MetaEntry1), 1),
      JsonFile("advertisers", (<<"a">> :> GoogleEntry1), 1) }

Init ==
    /\ svc \in {"meta", "google"}
    /\ brandsCache = Null
    /\ advertisersCache = Null
    /\ cacheFile \in FetchFiles
    /\ fileWrites = 0
    /\ cacheOp = [op |-> "none"]
    /\ config = [DEFAULT_CONFIG EXCEPT !.maxRetries = MaxFetchRetries,
                                       !.defaultMaxAds = ConfiguredMaxAds]
    /\ pc = "idle" /\ mode = "none" /\ attempt = 0
    /\ outcomes = <<>> /\ waits = <<>> /\ run = Null /\ thrown = Null
    /\ ResolverIdle
    /\ RequestIdle
    /\ NormalizerIdle
    /\ ConcurrentIdle

\* a statement of the cold path that has run, and the number of records it
\* worked on
Step(step, n) == [step |-> step, n |-> n]

Mutant_MetaColdSteps(items, normalizedAds, bestMatch) ==
    IF items = <<>> THEN <<>>
    ELSE LET OfBestMatch(ad) == bestMatch # Null /\ ad.pageId = bestMatch.pageId
         IN  <<Step("normalize", Len(normalizedAds))>>
             \o (IF bestMatch # Null /\ Truthy(bestMatch.pageId)
                 THEN <<Step("save", 1)>> ELSE <<>>)
             \o <<Step("resolve", Len(normalizedAds))>>
             \o (IF bestMatch = Null THEN <<>>
                 ELSE <<Step("filter", Len(normalizedAds)),
                        Step("truncate", Len(SelectSeq(normalizedAds, OfBestMatch)))>>)

\* the statements MetaAdsService.fetchAdsByBrand runs after the dataset of
\* a search by name has arrived, in their order: rawAds.map(normalizeAd),
\* findBestMatchingPage, saveBrandToCache, filter, slice
MetaColdSteps(items, normalizedAds, bestMatch) ==
    IF items = <<>> THEN <<>>
    ELSE LET OfBestMatch(ad) == bestMatch # Null /\ ad.pageId = bestMatch.pageId
         IN  <<Step("normalize", Len(normalizedAds)),
               Step("resolve", Len(normalizedAds))>>
             \o (IF bestMatch = Null THEN <<>>
                 ELSE (IF Truthy(bestMatch.pageId) THEN <<Step("save", 1)>> ELSE <<>>)
                      \o <<Step("filter", Len(normalizedAds)),
                           Step("truncate", Len(SelectSeq(normalizedAds, OfBestMatch)))>>)

\* the statements GoogleAdsService.fetchAdsByBrand runs after the dataset
\* of a search by domain has arrived, in their order: items.map(normalizeAd),
\* saveToCache, slice
GoogleColdSteps(items, trimmedBrandName) ==
    IF items = <<>> THEN <<>>
    ELSE LET normalizedAds == GoogleNormalizeAll(items, trimmedBrandName)
         IN  <<Step("normalize", Len(normalizedAds))>>
             \o (IF Truthy(items[1].advertiserId) THEN <<Step("save", 1)>> ELSE <<>>)
             \o <<Step("truncate", Len(normalizedAds))>>

\* the history a request starts with: the entries and the file it found,
\* no statement of the cold path run
StartOf(entries) ==
    [entries |-> entries, file |-> cacheFile, resolverCalls |-> 0,
     bestMatch |-> Null, saves |-> 0, steps |-> <<>>]

\* MetaAdsService.fetchAdsByBrand up to its first await, the start of
\* fetchAdsByPageId included when the brand is cached
MetaFetchAdsByBrand(brandName, optMaxAds) ==
    LET trimmedBrandName == trim(brandName)
        lk == lookupBrandInCache(brandsCache, cacheFile, trimmedBrandName)
        cachedBrand == lk[1]
        pageId == Prop(cachedBrand, "pageId")
    IN  /\ svc = "meta" /\ pc = "idle"
        /\ req' = [brandName |-> brandName, maxAds |-> optMaxAds]
        /\ IF ~Truthy(brandName) \/ Len(trimmedBrandName) = 0
           THEN /\ result' = RequiredResult
                /\ mode' = "invalid" /\ pc' = "done" /\ attempt' = 0
                /\ cached' = Null /\ actorInput' = Null
                /\ hist' = StartOf(MetaBrands)
                /\ UNCHANGED brandsCache
           ELSE /\ brandsCache' = lk[2]
                /\ cached' = cachedBrand
                /\ hist' = StartOf(lk[2].brands)
                /\ IF cachedBrand # Null
                   THEN /\ mode' = "byId"
                        /\ IF ~Truthy(pageId) \/ Len(trim(pageId)) = 0
                           THEN /\ result' = Spread(RequiredResult,
                                                    CachedProps(cachedBrand))
                                /\ pc' = "done" /\ attempt' = 0
                                /\ actorInput' = Null
                           ELSE /\ actorInput' = [search |-> "pageId",
                                                  value |-> trim(pageId)]
                                /\ pc' = "call" /\ attempt' = 1
                                /\ result' = Null
                   ELSE /\ mode' = "cold"
                        /\ actorInput' = [search |-> "name",
                                          value |-> trimmedBrandName]
                        /\ pc' = "call" /\ attempt' = 1
                        /\ result' = Null
        /\ UNCHANGED <<svc, advertisersCache, cacheFile, fileWrites, cacheOp,
                       resolverVars, normalizerVars, concurrentVars, config, outcomes, waits, run, thrown, rawAds>>

\* the catch block of fetchAdsByBrand / fetchAdsByPageId, entered when
\* runActorWithRetry throws
MetaHandleError ==
    /\ svc = "meta" /\ pc = "thrown" /\ mode \in {"cold", "byId"}
    /\ result' = IF mode = "byId"
                 THEN Spread(handleError(thrown), CachedProps(cached))
                 ELSE handleError(thrown)
    /\ pc' = "done"
    /\ UNCHANGED <<cacheVars, resolverVars, normalizerVars, concurrentVars, config, mode, attempt, outcomes,
                   waits, run, thrown, req, cached, actorInput, rawAds, hist>>

\* fetchDatasetItems settles with d, and the request runs on to its return;
\* writeOk: a writeFileSync that saveBrandToCache makes does not throw
MetaFetchDatasetItems(d, writeOk) ==
    LET trimmedBrandName == trim(req.brandName)
        normalizedAds == NormalizeAll(d.items, trimmedBrandName)
        bestMatch == IF d.items = <<>> THEN Null
                     ELSE findBestMatchingPage(normalizedAds, trimmedBrandName)
        saves == bestMatch # Null /\ Truthy(bestMatch.pageId)
        sv == saveBrandToCache(brandsCache, cacheFile, trimmedBrandName,
                               bestMatch.pageId, bestMatch.pageName, writeOk)
    IN  /\ svc = "meta" /\ pc = "returned" /\ mode \in {"cold", "byId"}
        /\ pc' = "done"
        /\ IF d.kind = "throw"
           THEN /\ result' =
                     IF mode = "byId"
                     THEN Spread(handleError(ApifyError("NETWORK_ERROR", attempt)),
                                 CachedProps(cached))
                     ELSE handleError(ApifyError("NETWORK_ERROR", attempt))
                /\ UNCHANGED <<brandsCache, cacheFile, fileWrites, rawAds, hist>>
           ELSE IF mode = "byId"
           THEN /\ result' = Spread(MetaPageResult(actorInput.value, d.items),
                                    CachedProps(cached))
                /\ rawAds' = [items |-> d.items]
                /\ UNCHANGED <<brandsCache, cacheFile, fileWrites, hist>>
           ELSE /\ result' = MetaSearchResult(config, req.maxAds, normalizedAds,
                                              bestMatch)
                /\ rawAds' = [items |-> d.items]
                /\ hist' = [hist EXCEPT
                              !.resolverCalls = IF d.items = <<>> THEN 0 ELSE 1,
                              !.bestMatch = bestMatch,
                              !.saves = IF saves THEN 1 ELSE 0,
                              !.steps = MetaColdSteps(d.items, normalizedAds,
                                                      bestMatch)]
                /\ brandsCache' = IF saves THEN sv.mem ELSE brandsCache
                /\ cacheFile' = IF saves THEN sv.file ELSE cacheFile
                /\ fileWrites' = IF saves /\ sv.wrote THEN fileWrites + 1
                                 ELSE fileWrites
        /\ UNCHANGED <<svc, advertisersCache, cacheOp, resolverVars, normalizerVars, concurrentVars, config,
                       mode, attempt, outcomes, waits, run, thrown, req, cached,
                       actorInput>>

\* new GoogleAdsService() and fetchAdsByBrand up to its first await, the
\* start of fetchAdsByAdvertiserId included when the brand is cached
GoogleFetchAdsByBrand(brandName, optMaxAds) ==
    LET trimmedBrandName == trim(brandName)
        loaded == loadCache(advertisersCache, cacheFile)
        cachedEntry == lookupInCache(loaded, trimmedBrandName)
    IN  /\ svc = "google" /\ pc = "idle"
        /\ req' = [brandName |-> brandName, maxAds |-> optMaxAds]
        /\ advertisersCache' = loaded
        /\ hist' = StartOf(loaded.advertisers)
        /\ IF ~Truthy(brandName) \/ Len(trimmedBrandName) = 0
           THEN /\ result' = Spread(RequiredResult, NotVerified)
                /\ mode' = "invalid" /\ pc' = "done" /\ attempt' = 0
                /\ cached' = Null /\ actorInput' = Null
           ELSE /\ cached' = cachedEntry
                /\ pc' = "call" /\ attempt' = 1
                /\ result' = Null
                /\ IF cachedEntry # Null
                   THEN /\ mode' = "byId"
                        /\ actorInput' =
                             [search |-> "advertiserId",
                              value |-> Prop(cachedEntry, "advertiserId")]
                   ELSE /\ mode' = "cold"
                        /\ actorInput' = [search |-> "domain",
                                          value |-> buildDomain(trimmedBrandName)]
        /\ UNCHANGED <<svc, brandsCache, cacheFile, fileWrites, cacheOp,
                       resolverVars, normalizerVars, concurrentVars, config, outcomes, waits, run, thrown, rawAds>>

\* the result of the Google service's request when it fails with code
GoogleFails(code) ==
    IF mode = "byId" THEN Spread(GoogleFailure(code), CachedProps(cached))
    ELSE Spread(GoogleFailure(code), NotVerified)

\* the actor call of the Google service settles with outcome o
GoogleRunActor(o) ==
    /\ svc = "google" /\ pc = "call"
    /\ outcomes' = Append(outcomes, o)
    /\ IF o.kind = "throw"
       THEN /\ result' = GoogleFails("UNKNOWN")
            /\ pc' = "done"
            /\ UNCHANGED run
       ELSE IF o.status # "SUCCEEDED"
       THEN /\ result' = GoogleFails("RUN_FAILED")
            /\ pc' = "done"
            /\ UNCHANGED run
       ELSE /\ pc' = "returned"
            /\ run' = [status |-> o.status, at |-> attempt]
            /\ UNCHANGED result
    /\ UNCHANGED <<cacheVars, resolverVars, normalizerVars, concurrentVars, config, mode, attempt, waits,
                   thrown, req, cached, actorInput, rawAds, hist>>

\* listItems settles with d, and the request runs on to its return;
\* writeOk: the writeFileSync of saveCache does not throw
GoogleListItems(d, writeOk) ==
    LET trimmedBrandName == trim(req.brandName)
        advertiserId == d.items[1].advertiserId
        advertiserName == Or(d.items[1].advertiserName, trimmedBrandName)
        saves == d.items # <<>> /\ Truthy(advertiserId)
        sv == saveToCache(advertisersCache, cacheFile, trimmedBrandName,
                          advertiserId, advertiserName, actorInput.value, writeOk)
    IN  /\ svc = "google" /\ pc = "returned"
        /\ pc' = "done"
        /\ IF d.kind = "throw"
           THEN /\ result' = GoogleFails("UNKNOWN")
                /\ UNCHANGED <<advertisersCache, cacheFile, fileWrites, rawAds, hist>>
           ELSE IF mode = "byId"
           THEN /\ result' = Spread(GoogleAdvertiserResult(config, req.maxAds,
                                                           d.items),
                                    CachedProps(cached))
                /\ rawAds' = [items |-> d.items]
                /\ UNCHANGED <<advertisersCache, cacheFile, fileWrites, hist>>
           ELSE /\ result' = GoogleSearchResult(config, req.maxAds,
                                                trimmedBrandName, d.items)
                /\ rawAds' = [items |-> d.items]
                /\ hist' = [hist EXCEPT
                              !.saves = IF saves THEN 1 ELSE 0,
                              !.steps = GoogleColdSteps(d.items, trimmedBrandName)]
                /\ advertisersCache' = IF saves THEN sv.mem ELSE advertisersCache
                /\ cacheFile' = IF saves THEN sv.file ELSE cacheFile
                /\ fileWrites' = IF saves THEN fileWrites + 1 ELSE fileWrites
        /\ UNCHANGED <<svc, brandsCache, cacheOp, resolverVars, normalizerVars, concurrentVars, config, mode,
                       attempt, outcomes, waits, run, thrown, req, cached,
                       actorInput>>

Next ==
    \/ \E b \in BrandInputs, m \in MaxAdsOptions : MetaFetchAdsByBrand(b, m)
    \/ \E o \in FetchOutcomes :
          RunActor(o) /\ UNCHANGED <<cacheVars, resolverVars, requestVars, normalizerVars, concurrentVars>>
    \/ SleepDone /\ UNCHANGED <<cacheVars, resolverVars, requestVars, normalizerVars, concurrentVars>>
    \/ MetaHandleError
    \/ \E d \in MetaDatasets, ok \in BOOLEAN : MetaFetchDatasetItems(d, ok)
    \/ \E b \in BrandInputs, m \in MaxAdsOptions : GoogleFetchAdsByBrand(b, m)
    \/ \E o \in FetchOutcomes : GoogleRunActor(o)
    \/ \E d \in GoogleDatasets, ok \in BOOLEAN : GoogleListItems(d, ok)

Spec == Init /\ [][Next]_vars

----------------------------------------------------------------------------
(***************************************************************************)
(* normalizeAd of both services: the id, the media list and the format of  *)
(* the Ad a raw record becomes.  A url is a string; an AdMedia keeps its   *)
(* type and its url.  A raw Meta record keeps the fields parseMedia,       *)
(* determineFormat and generateAdId read, the arrays of its snapshot under *)
(* the names snapshotImages, snapshotCards and snapshotVideos (empty when  *)
(* the record has no snapshot).                                            *)
(***************************************************************************)
AdMedia(type, url) == [type |-> type, url |-> url]

\* media.some(m => m.url === url)
HasUrl(media, url) == \E i \in 1..Len(media) : media[i].url = url

\* if (url && !media.some(m => m.url === url)) media.push({ type, url })
PushUnique(media, type, url) ==
    IF Truthy(url) /\ ~HasUrl(media, url)
    THEN Append(media, AdMedia(type, url))
    ELSE media

\* array.forEach over the candidates <<type, url>> of an array, each pushed
\* unless its url is falsy or already in the list
RECURSIVE PushEach(_, _)
PushEach(media, candidates) ==
    IF candidates = <<>> THEN media
    ELSE PushEach(PushUnique(media, Head(candidates)[1], Head(candidates)[2]),
                  Tail(candidates))

\* the two pushes a card of snapshot.cards makes: its image, then its video
RECURSIVE CardCandidates(_)
CardCandidates(cards) ==
    IF cards = <<>> THEN <<>>
    ELSE << <<"image", Or(Head(cards).resized_image_url,
                          Head(cards).video_preview_image_url)>>,
            <<"video", Head(cards).video_hd_url>> >>
         \o CardCandidates(Tail(cards))

\* MetaAdsService.parseMedia
parseMedia(rawAd) ==
    LET direct == IF Truthy(rawAd.imageUrl)
                  THEN <<AdMedia("image", rawAd.imageUrl)>> ELSE <<>>
        images == PushEach(direct,
                     [i \in 1..Len(rawAd.images) |-> <<"image", rawAd.images[i]>>])
        snapImages == PushEach(images,
                     [i \in 1..Len(rawAd.snapshotImages) |->
                        <<"image", Or(rawAd.snapshotImages[i].resized_image_url,
                                      rawAd.snapshotImages[i].original_image_url)>>])
        cards == PushEach(snapImages, CardCandidates(rawAd.snapshotCards))
        directVideo == IF Truthy(rawAd.videoUrl)
                       THEN Append(cards, AdMedia("video", rawAd.videoUrl))
                       ELSE cards
        videos == PushEach(directVideo,
                     [i \in 1..Len(rawAd.videos) |-> <<"video", rawAd.videos[i].url>>])
        snapVideos == PushEach(videos,
                     [i \in 1..Len(rawAd.snapshotVideos) |->
                        <<"video", Or(rawAd.snapshotVideos[i].video_hd_url,
                                      rawAd.snapshotVideos[i].video_sd_url)>>])
    IN  PushEach(snapVideos,
                 [i \in 1..Len(rawAd.media) |->
                    <<IF rawAd.media[i].type = "video" THEN "video" ELSE "image",
                      rawAd.media[i].url>>])

\* media.filter(m => m.type === type).length
TypeCount(media, type) == Cardinality({i \in 1..Len(media) : media[i].type = type})

\* MetaAdsService.determineFormat
determineFormat(rawAd, media) ==
    LET videoCount == TypeCount(media, "video")
        imageCount == TypeCount(media, "image")
    IN  IF videoCount > 0 THEN "video"
        ELSE IF imageCount > 1 THEN "carousel"
        ELSE IF imageCount = 1 THEN "image"
        ELSE IF Truthy(rawAd.videoUrl) \/ Len(rawAd.videos) > 0 THEN "video"
        ELSE IF Len(rawAd.images) > 1 THEN "carousel"
        ELSE IF Truthy(rawAd.imageUrl) \/ Len(rawAd.images) = 1 THEN "image"
        ELSE "unknown"

\* the printable characters with the UTF-16 code units 32..95 and 97..126,
\* in the order of their codes
PrintableLow ==
    <<" ", "!", "\"", "#", "$", "%", "&", "'", "(", ")", "*", "+", ",", "-",
      ".", "/", "0", "1", "2", "3", "4", "5", "6", "7", "8", "9", ":", ";",
      "<", "=", ">", "?", "@", "A", "B", "C", "D", "E", "F", "G", "H", "I",
      "J", "K", "L", "M", "N", "O", "P", "Q", "R", "S", "T", "U", "V", "W",
      "X", "Y", "Z", "[", "\\", "]", "^", "_">>
PrintableHigh ==
    <<"a", "b", "c", "d", "e", "f", "g", "h", "i", "j", "k", "l", "m", "n",
      "o", "p", "q", "r", "s", "t", "u", "v", "w", "x", "y", "z", "{", "|",
      "}", "~">>

\* String.prototype.charCodeAt, one character
charCodeAt(c) ==
    IF \E i \in 1..Len(PrintableLow) : PrintableLow[i] = c
    THEN 31 + (CHOOSE i \in 1..Len(PrintableLow) : PrintableLow[i] = c)
    ELSE 96 + (CHOOSE i \in 1..Len(PrintableHigh) : PrintableHigh[i] = c)

\* the loop of hashString; the 32-bit hash is kept as its two 16-bit halves,
\* and one round is hash = ((hash << 5) - hash + char) | 0
RECURSIVE HashLoop(_, _)
HashLoop(hash, str) ==
    IF str = <<>> THEN hash
    ELSE LET lo == hash.lo * 31 + charCodeAt(Head(str))
             hi == hash.hi * 31 + lo \div 65536
         IN  HashLoop([hi |-> hi % 65536, lo |-> lo % 65536], Tail(str))

\* Math.abs of the 32-bit hash, as halves
HashAbs(hash) ==
    IF hash.hi < 32768 THEN hash
    ELSE IF hash.lo = 0 THEN [hi |-> (65536 - hash.hi) % 65536, lo |-> 0]
    ELSE [hi |-> 65535 - hash.hi, lo |-> 65536 - hash.lo]

HexDigits ==
    <<"0", "1", "2", "3", "4", "5", "6", "7", "8", "9", "a", "b", "c", "d",
      "e", "f">>

\* Number.prototype.toString(16) of a 16-bit half; of a half padded to 4 digits
RECURSIVE Hex(_)
Hex(n) ==
    IF n < 16 THEN <<HexDigits[n + 1]>>
    ELSE Hex(n \div 16) \o <<HexDigits[(n % 16) + 1]>>

Hex4(n) ==
    <<HexDigits[(n \div 4096) + 1], HexDigits[((n \div 256) % 16) + 1],
      HexDigits[((n \div 16) % 16) + 1], HexDigits[(n % 16) + 1]>>

Str_generated == <<"g", "e", "n", "e", "r", "a", "t", "e", "d", "_">>

\* MetaAdsService.hashString
hashString(str) ==
    LET abs == HashAbs(HashLoop([hi |-> 0, lo |-> 0], str))
    IN  Str_generated \o
        (IF abs.hi = 0 THEN Hex(abs.lo) ELSE Hex(abs.hi) \o Hex4(abs.lo))

\* the length adText is cut to in generateAdId
AdTextPrefixLen == 50

\* MetaAdsService.generateAdId
generateAdId(rawAd) ==
    LET adText == IF rawAd.adText = undefined THEN undefined
                  ELSE SubSeq(rawAd.adText, 1,
                              Min(Len(rawAd.adText), AdTextPrefixLen))
    IN  hashString(Or(rawAd.pageID, <<>>) \o <<"|">> \o
                   Or(adText, <<>>) \o <<"|">> \o
                   Or(Or(rawAd.imageUrl, rawAd.videoUrl), <<>>) \o <<"|">> \o
                   Or(rawAd.startDate, <<>>))

\* the id, media and format of the Ad MetaAdsService.normalizeAd returns
NormalizedAd(rawAd) ==
    LET id == Or(Or(Or(rawAd.id, rawAd.adArchiveID), rawAd.ad_archive_id),
                 rawAd.adid)
        media == parseMedia(rawAd)
    IN  [id |-> IF Truthy(id) THEN id ELSE generateAdId(rawAd),
         media |-> media,
         format |-> determineFormat(rawAd, media)]

IsQuote(c) == c = "\"" \/ c = "'"

Str_src == <<"s", "r", "c", "=">>

\* the positions at which /src=["']([^"']+)["']/ matches html: src=, a
\* quote, one or more characters that are no quote, a quote
SrcMatches(html) ==
    {i \in 1..Len(html) :
        /\ i + 6 <= Len(html)
        /\ SubSeq(html, i, i + 3) = Str_src
        /\ IsQuote(html[i + 4])
        /\ ~IsQuote(html[i + 5])
        /\ \E j \in (i + 6)..Len(html) : IsQuote(html[j])}

\* GoogleAdsService.extractImageUrl
extractImageUrl(html) ==
    IF ~Truthy(html) \/ SrcMatches(html) = {} THEN undefined
    ELSE LET i == CHOOSE m \in SrcMatches(html) : \A n \in SrcMatches(html) : m <= n
             j == CHOOSE q \in (i + 6)..Len(html) :
                     /\ IsQuote(html[q])
                     /\ \A n \in (i + 6)..(q - 1) : ~IsQuote(html[n])
         IN  SubSeq(html, i + 5, j - 1)

\* one round of the loop over raw.variations; acc holds media, imageUrl and
\* videoUrl of normalizeAd
VariationStep(acc, variation) ==
    LET extractedUrl == IF Truthy(variation.iframeUrl)
                        THEN extractImageUrl(variation.iframeUrl) ELSE undefined
        a1 == IF Truthy(extractedUrl) /\ ~Truthy(acc.imageUrl)
              THEN [acc EXCEPT !.imageUrl = extractedUrl,
                               !.media = Append(@, AdMedia("image", extractedUrl))]
              ELSE acc
        a2 == IF Truthy(variation.imageUrl) /\ ~Truthy(a1.imageUrl)
              THEN [a1 EXCEPT !.imageUrl = variation.imageUrl,
                              !.media = Append(@, AdMedia("image", variation.imageUrl))]
              ELSE a1
    IN  IF Truthy(variation.videoUrl) /\ ~Truthy(a2.videoUrl)
        THEN [a2 EXCEPT !.videoUrl = variation.videoUrl,
                        !.media = Append(@, AdMedia("video", variation.videoUrl))]
        ELSE a2

RECURSIVE VariationLoop(_, _)
VariationLoop(acc, variations) ==
    IF variations = <<>> THEN acc
    ELSE VariationLoop(VariationStep(acc, Head(variations)), Tail(variations))

Str_video == <<"v", "i", "d", "e", "o">>
Str_image == <<"i", "m", "a", "g", "e">>
Str_text == <<"t", "e", "x", "t">>
Str_google == <<"g", "o", "o", "g", "l", "e", "-">>

\* Number.prototype.toString()
RECURSIVE Decimal(_)
Decimal(n) ==
    IF n < 10 THEN <<HexDigits[n + 1]>>
    ELSE Decimal(n \div 10) \o <<HexDigits[(n % 10) + 1]>>

\* the format GoogleAdsService.normalizeAd derives from raw.adType
GoogleFormat(rawAdType) ==
    LET adType == toLowerCase(Or(rawAdType, <<>>))
    IN  IF includes(adType, Str_video) THEN "video"
        ELSE IF includes(adType, Str_image) THEN "image"
        ELSE IF includes(adType, Str_text) THEN "text"
        ELSE "unknown"

\* the id, media and format of the Ad GoogleAdsService.normalizeAd returns,
\* when Date.now() is now and Math.random() is random (both as their decimal
\* strings)
GoogleNormalizedAd(raw, now, random) ==
    [id |-> Or(raw.creativeId, Str_google \o now \o <<"-">> \o random),
     media |-> VariationLoop([media |-> <<>>, imageUrl |-> undefined,
                              videoUrl |-> undefined], raw.variations).media,
     format |-> GoogleFormat(raw.adType)]

(***************************************************************************)
(* SpecNormalizer: normalizeAd of either service, called twice on one raw  *)
(* record.                                                                 *)
(***************************************************************************)
MaxImages == 2
MaxVariations == 2

Urls == { <<"u">>, <<"v">> }
OptUrls == Urls \cup {undefined}

SnapshotImages ==
    { [resized_image_url |-> <<"u">>, original_image_url |-> <<"v">>],
      [resized_image_url |-> undefined, original_image_url |-> <<"v">>] }

SnapshotCards ==
    { [resized_image_url |-> <<"u">>, video_preview_image_url |-> undefined,
       video_hd_url |-> <<"v">>],
      [resized_image_url |-> undefined, video_preview_image_url |-> <<"v">>,
       video_hd_url |-> <<"u">>],
      [resized_image_url |-> <<"v">>, video_preview_image_url |-> undefined,
       video_hd_url |-> undefined] }

SnapshotVideos ==
    { [video_hd_url |-> <<"u">>, video_sd_url |-> <<"v">>],
      [video_hd_url |-> undefined, video_sd_url |-> <<"v">>] }

MediaItems == { [type |-> "video", url |-> <<"u">>],
                [type |-> "image", url |-> <<"v">>] }

\* a raw Meta record with a natural id and any combination of media fields,
\* and one without media beyond imageUrl and videoUrl and any combination
\* of the fields its id comes from
MetaRecord(ids, gen, imageUrl, images, snapshotImages, snapshotCards,
           videoUrl, videos, snapshotVideos, media) ==
    [id |-> ids[1], adArchiveID |-> ids[2], ad_archive_id |-> ids[3],
     adid |-> ids[4], pageID |-> gen[1], adText |-> gen[2],
     startDate |-> gen[3], imageUrl |-> imageUrl, images |-> images,
     snapshotImages |-> snapshotImages, snapshotCards |-> snapshotCards,
     videoUrl |-> videoUrl, videos |-> videos,
     snapshotVideos |-> snapshotVideos, media |-> media]

NaturalIds ==
    { <<<<"7">>, undefined, undefined, undefined>>,
      <<undefined, <<"8">>, undefined, undefined>>,
      <<<<>>, undefined, <<"9">>, undefined>>,
      <<undefined, undefined, undefined, <<"6">>>> }
NoNaturalId == <<undefined, undefined, undefined, undefined>>

GeneratedIdFields ==
    {undefined, <<"1">>} \X {undefined, <<"t", "x">>} \X {undefined, <<"d">>}

MetaMediaRecords ==
    { MetaRecord(<<<<"7">>, undefined, undefined, undefined>>,
                 <<<<"1">>, undefined, undefined>>,
                 imageUrl, images, snapshotImages, snapshotCards, videoUrl,
                 videos, snapshotVideos, media) :
        imageUrl \in OptUrls, images \in SeqsUpTo(Urls, MaxImages),
        snapshotImages \in SeqsUpTo(SnapshotImages, 1),
        snapshotCards \in SeqsUpTo(SnapshotCards, 1),
        videoUrl \in OptUrls, videos \in SeqsUpTo([url : Urls], 1),
        snapshotVideos \in SeqsUpTo(SnapshotVideos, 1),
        media \in SeqsUpTo(MediaItems, 1) }

MetaIdRecords ==
    { MetaRecord(ids, gen, imageUrl, <<>>, <<>>, <<>>, videoUrl, <<>>, <<>>, <<>>) :
        ids \in NaturalIds \cup {NoNaturalId}, gen \in GeneratedIdFields,
        imageUrl \in OptUrls, videoUrl \in OptUrls }

Html(src) == <<"<", "i", "m", "g", " ">> \o Str_src \o <<"'">> \o src \o <<"'", ">">>

Variations ==
    { [iframeUrl |-> Html(<<"u">>), imageUrl |-> undefined, videoUrl |-> undefined],
      [iframeUrl |-> Html(<<>>), imageUrl |-> <<"v">>, videoUrl |-> undefined],
      [iframeUrl |-> undefined, imageUrl |-> <<"u">>, videoUrl |-> <<"v">>],
      [iframeUrl |-> undefined, imageUrl |-> undefined, videoUrl |-> <<"u">>] }

AdTypes == { undefined, <<"T", "e", "x", "t">>, <<"I", "m", "a", "g", "e">>,
             <<"V", "I", "D", "E", "O">> }

GoogleRecords ==
    [creativeId : {undefined, <<"C", "R", "1">>}, adType : AdTypes,
     variations : SeqsUpTo(Variations, MaxVariations)]

\* what Date.now() returns, and what Math.random() returns as its decimal
\* string
MaxClock == 2
ClockValues == 1..MaxClock
RandomValues == { <<"0", ".", "1">>, <<"0", ".", "2">> }

InitNormalizer ==
    /\ \/ nRaw \in {[shape |-> "meta", raw |-> r] : r \in MetaMediaRecords}
       \/ nRaw \in {[shape |-> "meta", raw |-> r] : r \in MetaIdRecords}
       \/ nRaw \in {[shape |-> "google", raw |-> r] : r \in GoogleRecords}
    /\ nOut = <<>> /\ nNow = 0
    /\ ConcurrentIdle
    /\ svc = "meta" /\ brandsCache = Null /\ advertisersCache = Null
    /\ cacheFile = [kind |-> "missing"] /\ fileWrites = 0
    /\ cacheOp = [op |-> "none"]
    /\ ResolverIdle
    /\ RetryIdle
    /\ RequestIdle

\* MetaAdsService.normalizeAd(nRaw)
MetaNormalizeAd ==
    /\ nRaw.shape = "meta" /\ Len(nOut) < 2
    /\ nOut' = Append(nOut, NormalizedAd(nRaw.raw))
    /\ UNCHANGED <<nRaw, nNow, cReqs, cSaves, cacheVars, resolverVars, retryVars,
                   requestVars>>

\* GoogleAdsService.normalizeAd(nRaw), Date.now() returning now, no earlier
\* than its last reading, and Math.random() returning random
GoogleNormalizeAd(now, random) ==
    /\ nRaw.shape = "google" /\ Len(nOut) < 2
    /\ now >= nNow /\ nNow' = now
    /\ nOut' = Append(nOut, GoogleNormalizedAd(nRaw.raw, Decimal(now), random))
    /\ UNCHANGED <<nRaw, cReqs, cSaves, cacheVars, resolverVars, retryVars,
                   requestVars>>

NextNormalizer ==
    \/ MetaNormalizeAd
    \/ \E now \in ClockValues, random \in RandomValues :
          GoogleNormalizeAd(now, random)

SpecNormalizer == InitNormalizer /\ [][NextNormalizer]_vars

(***************************************************************************)
(* SpecConcurrent: two fetchAdsByBrand requests of one service in one      *)
(* process.  A request runs from its call to its first await in one step   *)
(* and from the settling of its awaits (the actor call and the dataset     *)
(* read, between which it touches nothing shared) to its return in one     *)
(* step; the two requests interleave at these points only.                 *)
(***************************************************************************)
MaxConcurrentItems == 1

Requests == {1, 2}

ConcurrentBrands == { <<"a">>, <<"A">>, <<"b">> }

ConcurrentFiles == { [kind |-> "missing"], JsonFile("brands", EmptyMap, 0) }

ConcurrentDatasets ==
    {Listed(s) : s \in SeqsUpTo(IF svc = "meta" THEN MetaItems ELSE GoogleItems,
                                MaxConcurrentItems)}
    \cup {ListThrows}

NotCalled == [phase |-> "idle", brandName |-> <<>>, mode |-> "none",
              cached |-> Null, result |-> Null]

InitConcurrent ==
    /\ svc \in {"meta", "google"}
    /\ brandsCache = Null /\ advertisersCache = Null
    /\ cacheFile \in ConcurrentFiles /\ fileWrites = 0
    /\ cacheOp = [op |-> "none"]
    /\ cReqs = [r \in Requests |-> NotCalled]
    /\ cSaves = <<>>
    /\ ResolverIdle
    /\ RetryIdle
    /\ RequestIdle
    /\ NormalizerIdle

\* request r calls fetchAdsByBrand(brandName) and runs to its first await
BeginFetch(r, brandName) ==
    LET trimmedBrandName == trim(brandName)
        lk == lookupBrandInCache(brandsCache, cacheFile, trimmedBrandName)
        loaded == loadCache(advertisersCache, cacheFile)
        cachedEntry == IF svc = "meta" THEN lk[1]
                       ELSE lookupInCache(loaded, trimmedBrandName)
        id == IF svc = "meta" THEN Prop(cachedEntry, "pageId")
              ELSE Prop(cachedEntry, "advertiserId")
        call == [phase |-> "await", brandName |-> brandName,
                 mode |-> IF cachedEntry # Null THEN "byId" ELSE "cold",
                 cached |-> cachedEntry, result |-> Null]
    IN  /\ cReqs[r].phase = "idle"
        /\ brandsCache' = IF svc = "meta" THEN lk[2] ELSE brandsCache
        /\ advertisersCache' = IF svc = "google" THEN loaded ELSE advertisersCache
        /\ cReqs' = [cReqs EXCEPT ![r] =
              IF svc = "meta" /\ cachedEntry # Null
                 /\ (~Truthy(id) \/ Len(trim(id)) = 0)
              THEN [call EXCEPT !.phase = "done",
                                !.result = Spread(RequiredResult,
                                                  CachedProps(cachedEntry))]
              ELSE call]
        /\ UNCHANGED <<svc, cacheFile, fileWrites, cacheOp, cSaves, resolverVars,
                       retryVars, requestVars, normalizerVars>>

\* the awaits of request r settle with dataset d, and r runs on to its
\* return; writeOk: the writeFileSync of its cache save does not throw
EndFetch(r, d, writeOk) ==
    LET me == cReqs[r]
        trimmedBrandName == trim(me.brandName)
        normalizedAds == NormalizeAll(d.items, trimmedBrandName)
        bestMatch == IF d.items = <<>> THEN Null
                     ELSE findBestMatchingPage(normalizedAds, trimmedBrandName)
        advertiserId == d.items[1].advertiserId
        advertiserName == Or(d.items[1].advertiserName, trimmedBrandName)
        saves == /\ d.kind = "items" /\ me.mode = "cold"
                 /\ IF svc = "meta"
                    THEN bestMatch # Null /\ Truthy(bestMatch.pageId)
                    ELSE d.items # <<>> /\ Truthy(advertiserId)
        sv == IF svc = "meta"
              THEN saveBrandToCache(brandsCache, cacheFile, trimmedBrandName,
                                    bestMatch.pageId, bestMatch.pageName, writeOk)
              ELSE saveToCache(advertisersCache, cacheFile, trimmedBrandName,
                               advertiserId, advertiserName,
                               buildDomain(trimmedBrandName), writeOk)
        failed == IF svc = "meta" THEN handleError(ApifyError("NETWORK_ERROR", 1))
                  ELSE Spread(GoogleFailure("UNKNOWN"), NotVerified)
        byId == IF svc = "meta"
                THEN MetaPageResult(trim(Prop(me.cached, "pageId")), d.items)
                ELSE GoogleAdvertiserResult(config, 0, d.items)
        cold == IF svc = "meta"
                THEN MetaSearchResult(config, 0, normalizedAds, bestMatch)
                ELSE GoogleSearchResult(config, 0, trimmedBrandName, d.items)
    IN  /\ me.phase = "await"
        /\ cReqs' = [cReqs EXCEPT ![r] =
              [me EXCEPT !.phase = "done",
                         !.result = IF d.kind = "throw"
                                    THEN (IF me.mode = "byId"
                                          THEN Spread(failed, CachedProps(me.cached))
                                          ELSE failed)
                                    ELSE IF me.mode = "byId"
                                    THEN Spread(byId, CachedProps(me.cached))
                                    ELSE cold]]
        /\ brandsCache' = IF saves /\ svc = "meta" THEN sv.mem ELSE brandsCache
        /\ advertisersCache' = IF saves /\ svc = "google" THEN sv.mem
                               ELSE advertisersCache
        /\ cacheFile' = IF saves THEN sv.file ELSE cacheFile
        /\ fileWrites' = IF saves /\ sv.wrote THEN fileWrites + 1 ELSE fileWrites
        /\ cSaves' = IF saves
                     THEN Append(cSaves,
                                 [by |-> r, key |-> NormalizeKey(trimmedBrandName),
                                  id |-> IF svc = "meta" THEN bestMatch.pageId
                                         ELSE advertiserId,
                                  writeOk |-> writeOk,
                                  during |-> {q \in Requests \ {r} :
                                                cReqs[q].phase = "await"}])
                     ELSE cSaves
        /\ UNCHANGED <<svc, cacheOp, resolverVars, retryVars, requestVars,
                       normalizerVars>>

NextConcurrent ==
    \/ \E r \in Requests, b \in ConcurrentBrands : BeginFetch(r, b)
    \/ \E r \in Requests, d \in ConcurrentDatasets, ok \in BOOLEAN :
          EndFetch(r, d, ok)

SpecConcurrent == InitConcurrent /\ [][NextConcurrent]_vars

----------------------------------------------------------------------------
----------------------------------------------------------------------------
(***************************************************************************)
(* C1.  Meta brand cache, first writer wins: a saveBrandToCache call for a *)
(* term whose normalized key already has an entry leaves that entry's      *)
(* pageId and name as they are and does not write the file; no save        *)
(* changes an entry that another key already has.                          *)
(***************************************************************************)
IsMetaSaveStep == cacheOp'.op = "save" /\ cacheOp'.svc = "meta"

C1_FirstWriterWins ==
    [][ IsMetaSaveStep =>
          /\ \A k \in DOMAIN MetaBrands :
                k \in DOMAIN MetaBrands' /\ MetaBrands'[k] = MetaBrands[k]
          /\ NormalizeKey(cacheOp'.term) \in DOMAIN MetaBrands =>
                (fileWrites' = fileWrites /\ cacheFile' = cacheFile) ]_vars

\* a second save for an existing key, with another page id, has happened
C1_Witness ==
    /\ cacheOp.op = "save" /\ cacheOp.svc = "meta"
    /\ NormalizeKey(cacheOp.term) \in DOMAIN MetaBrands
    /\ MetaBrands[NormalizeKey(cacheOp.term)].pageId # cacheOp.id
    /\ cacheOp.term # NormalizeKey(cacheOp.term)
    /\ fileWrites >= 1

(***************************************************************************)
(* C2.  Cache key normalization: a lookup of either service returns the    *)
(* entry stored under the lowercase-trimmed form of the term, so all case  *)
(* and surrounding-whitespace variants of a saved term get the same entry, *)
(* and returns null when no entry was saved under that normalized form.    *)
(***************************************************************************)
OwnEntries == IF svc = "meta" THEN MetaBrands ELSE GoogleAdvertisers

C2_LookupByNormalizedKey ==
    cacheOp.op = "lookup" =>
        LET key == NormalizeKey(cacheOp.term)
        IN  cacheOp.result = IF key \in DOMAIN OwnEntries THEN OwnEntries[key]
                             ELSE Null

(***************************************************************************)
(* C3.  Name-relevance gate: findBestMatchingPage returns null or a        *)
(* candidate whose display name, compared case-insensitively, equals the   *)
(* search term, is a prefix of it or has it as a prefix, or is contained   *)
(* in it or contains it.                                                   *)
(***************************************************************************)
NameRelated(name, term) ==
    LET n == toLowerCase(name)
        t == toLowerCase(term)
    IN  \/ n = t
        \/ \E k \in 0..Len(t) : SubSeq(t, 1, k) = n
        \/ \E k \in 0..Len(n) : SubSeq(n, 1, k) = t
        \/ \E i \in 1..(Len(t) + 1), j \in 0..Len(t) : SubSeq(t, i, j) = n
        \/ \E i \in 1..(Len(n) + 1), j \in 0..Len(n) : SubSeq(n, i, j) = t

C3_NameGate ==
    rResult.state = "returned" =>
        \/ rResult.value = Null
        \/ NameRelated(rResult.value.pageName, rTerm)

\* the resolver turned down a page with more ads and an unrelated name
C3_Witness ==
    /\ rResult.state = "returned"
    /\ rResult.value # Null
    /\ \E i \in 1..Len(rAds) :
          /\ Truthy(rAds[i].pageId)
          /\ rAds[i].pageId # rResult.value.pageId
          /\ \A j \in 1..Len(rAds) :
                rAds[j].pageId = rAds[i].pageId => ~NameRelated(rAds[j].brandName, rTerm)
          /\ Cardinality({j \in 1..Len(rAds) : rAds[j].pageId = rAds[i].pageId})
               > Cardinality({j \in 1..Len(rAds) : rAds[j].pageId = rResult.value.pageId})

(***************************************************************************)
(* C4.  Cache-hit path: a fetchAdsByBrand request whose normalized brand   *)
(* is an entry of the cache when the request starts takes the by-id path:  *)
(* the only actor input it uses is the fetch by the entry's id, it never   *)
(* runs findBestMatchingPage and never calls a cache save, it resolves     *)
(* with brandSource "cached" and the entry's display name as               *)
(* verifiedBrandName, and the cache entries and the cache file stay as     *)
(* they were.                                                              *)
(***************************************************************************)
RequestKey == NormalizeKey(req.brandName)

\* the request got past the validation of the brand name
Accepted == hist # Null /\ Len(trim(req.brandName)) > 0

CacheUntouched ==
    OwnEntries = hist.entries /\ cacheFile = hist.file /\ fileWrites = 0

ByIdInput(entry) ==
    IF svc = "meta"
    THEN [search |-> "pageId", value |-> Prop(entry, "pageId")]
    ELSE [search |-> "advertiserId", value |-> Prop(entry, "advertiserId")]

C4_CacheHitPath ==
    (Accepted /\ RequestKey \in DOMAIN hist.entries) =>
        LET entry == hist.entries[RequestKey]
        IN  /\ mode = "byId"
            /\ actorInput # Null => actorInput = ByIdInput(entry)
            /\ outcomes # <<>> => actorInput # Null
            /\ hist.resolverCalls = 0 /\ hist.saves = 0
            /\ pc = "done" => /\ result.brandSource = "cached"
                              /\ result.verifiedBrandName = entry.name
            /\ CacheUntouched

\* a request for " A" hits the entry saved under "a" and returns its ads
C4_Witness ==
    /\ Accepted /\ RequestKey \in DOMAIN hist.entries
    /\ req.brandName # RequestKey
    /\ pc = "done" /\ result.success /\ Len(result.ads) > 0

(***************************************************************************)
(* C5.  Cache miss with an empty upstream result: a fetchAdsByBrand        *)
(* request whose normalized brand is no entry of the cache, and whose      *)
(* actor run ends SUCCEEDED with an empty dataset, resolves with success,  *)
(* ads = [], totalFound = 0 and brandSource "not_verified", and the cache  *)
(* entries and the cache file stay as they were.                           *)
(***************************************************************************)
EmptyUpstream ==
    /\ pc = "done" /\ Accepted /\ RequestKey \notin DOMAIN hist.entries
    /\ run # Null /\ run.status = "SUCCEEDED"
    /\ rawAds # Null /\ Len(rawAds.items) = 0

C5_EmptyUpstreamNotVerified ==
    EmptyUpstream =>
        /\ result = [success |-> TRUE, ads |-> <<>>, totalFound |-> 0,
                     brandSource |-> "not_verified"]
        /\ CacheUntouched

(***************************************************************************)
(* C6.  Discovered path of the Meta orchestrator: when the normalized      *)
(* brand is no entry of the cache and, among the pages of the upstream     *)
(* records, at least one has a display name related to the search term,    *)
(* the request resolves for one such page p: the ads of the result are     *)
(* the first maxAds of the records of p, in the order of the dataset;      *)
(* brandSource is "discovered", verifiedBrandName is the name p was first  *)
(* seen with; and afterwards the cache maps the normalized term to p (the  *)
(* file too, unless its write failed).                                     *)
(***************************************************************************)
UpstreamAds == NormalizeAll(rawAds.items, trim(req.brandName))

UpstreamPages ==
    {UpstreamAds[i].pageId : i \in {j \in 1..Len(UpstreamAds) :
                                      Truthy(UpstreamAds[j].pageId)}}

\* the name of the first record of page p
FirstSeenName(p) ==
    LET first == CHOOSE i \in 1..Len(UpstreamAds) :
                    /\ UpstreamAds[i].pageId = p
                    /\ \A j \in 1..(i - 1) : UpstreamAds[j].pageId # p
    IN  UpstreamAds[first].brandName

PassingPages ==
    {p \in UpstreamPages : NameRelated(FirstSeenName(p), trim(req.brandName))}

\* the positions of the records of page p, ascending
RECURSIVE PositionsOf(_, _)
PositionsOf(p, n) ==
    IF n = 0 THEN <<>>
    ELSE IF UpstreamAds[n].pageId = p THEN Append(PositionsOf(p, n - 1), n)
         ELSE PositionsOf(p, n - 1)

DiscoveredCase ==
    /\ svc = "meta" /\ pc = "done" /\ Accepted
    /\ RequestKey \notin DOMAIN hist.entries
    /\ rawAds # Null
    /\ PassingPages # {}

ResolvedTo(p) ==
    LET pos == PositionsOf(p, Len(UpstreamAds))
        maxAds == IF req.maxAds > 0 THEN req.maxAds ELSE config.defaultMaxAds
        n == IF Len(pos) <= maxAds THEN Len(pos) ELSE maxAds
    IN  /\ result.success
        /\ result.brandSource = "discovered"
        /\ result.verifiedBrandName = FirstSeenName(p)
        /\ Len(result.ads) = n
        /\ \A i \in 1..n : result.ads[i] = UpstreamAds[pos[i]]
        /\ \A i \in 1..n : result.ads[i].pageId = p
        /\ RequestKey \in DOMAIN MetaBrands
        /\ MetaBrands[RequestKey].pageId = p
        /\ \/ /\ Parses(cacheFile) /\ cacheFile.root = "brands"
              /\ RequestKey \in DOMAIN cacheFile.entries
              /\ cacheFile.entries[RequestKey].pageId = p
           \/ fileWrites = 1 /\ cacheFile = hist.file

C7_FailedNotRetried ==
    \A i \in 1..Len(outcomes) :
        outcomes[i] = Returns("FAILED") =>
            /\ i = Len(outcomes)
            /\ pc = "thrown"
            /\ thrown = ApifyError("RUN_FAILED", i)
            /\ Len(waits) = i - 1

\* the first call returned FAILED although more attempts were allowed
C7_Witness ==
    /\ outcomes = <<Returns("FAILED")>>
    /\ config.maxRetries >= 2
    /\ pc = "thrown" /\ waits = <<>>

(***************************************************************************)
(* C8.  As stated: a run returned with status TIMED-OUT is not retried: it *)
(* is the last actor call, no backoff delay follows it, and the TIMEOUT    *)
(* error is thrown at once.                                                *)
(***************************************************************************)
C8_TimedOutNotRetried ==
    \A i \in 1..Len(outcomes) :
        outcomes[i] = Returns("TIMED-OUT") =>
            /\ i = Len(outcomes)
            /\ pc = "thrown"
            /\ thrown = ApifyError("TIMEOUT", i)
            /\ Len(waits) = i - 1

(***************************************************************************)
(* C8, amended.  A run returned with status TIMED-OUT is surfaced at once, *)
(* with no wait and no further call, only on the last allowed attempt      *)
(* (attempt = maxRetries); on an earlier attempt runActorWithRetry sleeps  *)
(* the backoff delay of that attempt and calls the actor again.            *)
(***************************************************************************)
C8_TimedOutRetriedUntilLastAttempt ==
    \A i \in 1..Len(outcomes) :
        outcomes[i] = Returns("TIMED-OUT") =>
            IF i >= config.maxRetries
            THEN /\ i = Len(outcomes)
                 /\ pc = "thrown"
                 /\ thrown = ApifyError("TIMEOUT", i)
                 /\ Len(waits) = i - 1
            ELSE /\ Len(waits) >= i
                 /\ waits[i] = Min(config.baseDelayMs * Pow2(i - 1), config.maxDelayMs)
                 /\ (i = Len(outcomes) => pc \in {"sleep", "call"})

\* a TIMED-OUT first run was followed by a second actor call
C8_Witness ==
    /\ Len(outcomes) = 2
    /\ outcomes[1] = Returns("TIMED-OUT")
    /\ outcomes[2] = Returns("SUCCEEDED")
    /\ pc = "returned"

(***************************************************************************)
(* C9.  Retry to success: while every actor call so far threw a retryable  *)
(* error that is not a rate limit, the controller goes on to the next call *)
(* as long as maxRetries allows one; if the call after n such failures     *)
(* returns SUCCEEDED, runActorWithRetry returns that run after n + 1 calls *)
(* and n waits; among the n waits one below maxDelayMs is followed by a    *)
(* strictly longer one and none exceeds maxDelayMs.                        *)
(***************************************************************************)
IsRetryableThrow(o, n) ==
    /\ o.kind = "throw"
    /\ isRetryableError(CaughtError(o, n))
    /\ ~isRateLimitError(CaughtError(o, n))

C9_RetryToSuccess ==
    LET n == Len(outcomes) - 1
    IN  (outcomes # <<>> /\ \A i \in 1..n : IsRetryableThrow(outcomes[i], i)) =>
          /\ outcomes[n + 1] = Returns("SUCCEEDED") =>
                /\ pc = "returned"
                /\ run = [status |-> "SUCCEEDED", at |-> n + 1]
                /\ Len(waits) = n
                /\ n + 1 <= config.maxRetries
          /\ (IsRetryableThrow(outcomes[n + 1], n + 1) /\ n + 1 < config.maxRetries) =>
                pc \in {"sleep", "call"}
          /\ Len(waits) >= n
          /\ \A i \in 1..n : waits[i] <= config.maxDelayMs
          /\ \A i \in 1..(n - 1) :
                waits[i] < config.maxDelayMs => waits[i] < waits[i + 1]

\* three network errors, then success on the fourth attempt, the third wait
\* being the capped one
C9_Witness ==
    /\ Len(outcomes) = 4
    /\ \A i \in 1..3 : outcomes[i] = Throws("Error", {"network"})
    /\ outcomes[4] = Returns("SUCCEEDED")
    /\ pc = "returned"
    /\ waits = <<1000, 2000, 3000>>

(***************************************************************************)
(* C10.  Bounded retries: one runActorWithRetry invocation makes at most   *)
(* maxRetries actor calls and settles; when it throws, the error is the    *)
(* object caught on the last attempt.                                      *)
(***************************************************************************)
C10_Bounded ==
    /\ Len(outcomes) <= config.maxRetries
    /\ pc = "call" => attempt <= config.maxRetries
    /\ pc = "thrown" =>
          thrown = CaughtError(outcomes[Len(outcomes)], Len(outcomes))

C10_BoundedRetries == []C10_Bounded /\ <>(pc \in {"returned", "thrown"})

\* every allowed attempt failed with a retryable error and the last one was thrown
C10_Witness ==
    /\ config.maxRetries >= 3
    /\ Len(outcomes) = config.maxRetries
    /\ \A i \in 1..Len(outcomes) : outcomes[i] = Throws("Error", {"network"})
    /\ pc = "thrown"
    /\ thrown.at = config.maxRetries

(***************************************************************************)
(* C11.  Cache writes happen only on the discovered path: whenever the     *)
(* entries of the cache or the cache file differ from what a               *)
(* fetchAdsByBrand request of either service found at its start, or a      *)
(* file write was made, the request has resolved with brandSource          *)
(* "discovered", the entry of the normalized brand has a non-empty         *)
(* external id and every other entry is as before; so requests that end    *)
(* cached, not_verified or failed leave the cache as it was.               *)
(***************************************************************************)
CacheChanged ==
    OwnEntries # hist.entries \/ cacheFile # hist.file \/ fileWrites > 0

BrandSourceIs(s) == "brandSource" \in DOMAIN result /\ result.brandSource = s

EntryId(entry) ==
    IF svc = "meta" THEN Prop(entry, "pageId") ELSE Prop(entry, "advertiserId")

C11_WritesOnlyWhenDiscovered ==
    (hist # Null /\ CacheChanged) =>
        /\ pc = "done"
        /\ BrandSourceIs("discovered")
        /\ RequestKey \in DOMAIN OwnEntries
        /\ Truthy(EntryId(OwnEntries[RequestKey]))
        /\ DOMAIN OwnEntries = DOMAIN hist.entries \cup {RequestKey}
        /\ \A k \in DOMAIN hist.entries \ {RequestKey} :
              OwnEntries[k] = hist.entries[k]

\* a Google request for "b" adds its entry next to the one for "a", in
\* memory and in the file
C11_Witness ==
    /\ hist # Null /\ pc = "done" /\ svc = "google"
    /\ BrandSourceIs("discovered")
    /\ hist.entries # EmptyMap
    /\ OwnEntries # hist.entries
    /\ cacheFile # hist.file

(***************************************************************************)
(* C12.  No failure escapes the orchestrator: a request, by brand or on    *)
(* the by-id path, whose last actor call threw or returned the status      *)
(* FAILED or TIMED-OUT, or whose dataset listing threw, resolves with      *)
(* success = false, ads = [] and an errorCode; and a request never stops   *)
(* short of resolving: in every state before its result some step of the   *)
(* request is enabled.                                                     *)
(***************************************************************************)
LastOutcome == outcomes[Len(outcomes)]

ActorFailed ==
    /\ outcomes # <<>>
    /\ IF LastOutcome.kind = "throw" THEN TRUE
       ELSE LastOutcome.status \in {"FAILED", "TIMED-OUT"}

ListingThrew == pc = "done" /\ run # Null /\ rawAds = Null

TypedFailure ==
    /\ result.success = FALSE
    /\ result.ads = <<>>
    /\ "errorCode" \in DOMAIN result

FirstPosition(p) ==
    CHOOSE i \in 1..Len(rAds) :
        /\ rAds[i].pageId = p
        /\ \A j \in 1..(i - 1) : rAds[j].pageId # p

\* the score the resolver gives page p, 0 when p fails the name gate
ScoreOfPage(p) ==
    LET name == Or(rAds[FirstPosition(p)].brandName, <<>>)
        count == Cardinality({i \in 1..Len(rAds) : rAds[i].pageId = p})
        nameScore == NameScore(toLowerCase(name), toLowerCase(rTerm))
    IN  IF nameScore = 0 THEN 0
        ELSE nameScore + (IF count <= CountCap THEN count ELSE CountCap)

ResolverPages ==
    {rAds[i].pageId : i \in {j \in 1..Len(rAds) : Truthy(rAds[j].pageId)}}

C13_StableTieBreak ==
    /\ (rResult.state \in {"returned", "repeated"} /\ rResult.value # Null) =>
          LET p == rResult.value.pageId
          IN  /\ p \in ResolverPages
              /\ ScoreOfPage(p) > 0
              /\ \A q \in ResolverPages :
                    ScoreOfPage(q) = ScoreOfPage(p) =>
                        FirstPosition(p) <= FirstPosition(q)
    /\ rResult.state = "repeated" => rResult.value = rResult.first

\* two pages tie and the one returned, twice, is not the one with the
\* smaller page id
C13_Witness ==
    /\ rResult.state = "repeated" /\ rResult.value # Null
    /\ rResult.value.pageId = <<"2">>
    /\ <<"1">> \in ResolverPages
    /\ ScoreOfPage(<<"1">>) = ScoreOfPage(<<"2">>)

(***************************************************************************)
(* C14.  Truncation is the last step of the Meta discovered path: when     *)
(* the resolved page has k records in the dataset, at whatever positions,  *)
(* the result has exactly min(k, maxAds) ads and totalFound = k.           *)
(***************************************************************************)
MetaDiscovered ==
    /\ svc = "meta" /\ hist # Null /\ pc = "done"
    /\ BrandSourceIs("discovered")

\* the number of records of the resolved page in the dataset
ResolvedCount ==
    Cardinality({i \in 1..Len(UpstreamAds) :
                   UpstreamAds[i].pageId = hist.bestMatch.pageId})

RequestedMaxAds == IF req.maxAds > 0 THEN req.maxAds ELSE config.defaultMaxAds

C14_TruncationLast ==
    MetaDiscovered =>
        /\ Len(result.ads) = IF ResolvedCount <= RequestedMaxAds
                             THEN ResolvedCount ELSE RequestedMaxAds
        /\ result.totalFound = ResolvedCount

\* the resolved page has the first and the third record, another page the
\* second, and maxAds is 1
C14_Witness ==
    /\ MetaDiscovered
    /\ Len(UpstreamAds) = 3
    /\ UpstreamAds[1].pageId = hist.bestMatch.pageId
    /\ UpstreamAds[2].pageId # hist.bestMatch.pageId
    /\ Truthy(UpstreamAds[2].pageId)
    /\ UpstreamAds[3].pageId = hist.bestMatch.pageId
    /\ RequestedMaxAds = 1
    /\ Len(result.ads) = 1 /\ result.totalFound = 2


(***************************************************************************)
(* C15.  Format follows the media list, for records of both provider       *)
(* shapes: in every normalized Ad a media list with a video gives format   *)
(* 'video', otherwise more than one image gives 'carousel', otherwise      *)
(* exactly one image gives 'image'; only with an empty media list do the   *)
(* hints of the raw record decide.                                         *)
(***************************************************************************)
FormatFollowsMedia(ad) ==
    LET videoCount == Cardinality({i \in 1..Len(ad.media) : ad.media[i].type = "video"})
        imageCount == Cardinality({i \in 1..Len(ad.media) : ad.media[i].type = "image"})
    IN  /\ videoCount > 0 => ad.format = "video"
        /\ videoCount = 0 /\ imageCount > 1 => ad.format = "carousel"
        /\ videoCount = 0 /\ imageCount = 1 => ad.format = "image"

C15_FormatFollowsMedia ==
    \A k \in 1..Len(nOut) : FormatFollowsMedia(nOut[k])

\* the same, of the Ads of MetaAdsService alone
C15_MetaFormatFollowsMedia ==
    nRaw # Null /\ nRaw.shape = "meta" => C15_FormatFollowsMedia


(***************************************************************************)
(* C16.  Identifier determinism: normalizing the same raw record twice     *)
(* yields the same non-empty Ad id, for records of both provider shapes,   *)
(* records without a natural id field among them.                          *)
(***************************************************************************)
C16_SameIdTwice ==
    /\ \A k \in 1..Len(nOut) : nOut[k].id # undefined /\ nOut[k].id # <<>>
    /\ Len(nOut) = 2 => nOut[1].id = nOut[2].id

\* the same, of the Ads of MetaAdsService alone
C16_MetaSameIdTwice ==
    nRaw # Null /\ nRaw.shape = "meta" => C16_SameIdTwice

\* a Meta record without a natural id has been normalized twice
C16_MetaGeneratedTwice ==
    /\ nRaw # Null /\ nRaw.shape = "meta" /\ Len(nOut) = 2
    /\ \A f \in {"id", "adArchiveID", "ad_archive_id", "adid"} : ~Truthy(nRaw.raw[f])
    /\ startsWith(nOut[2].id, Str_generated)


(***************************************************************************)
(* C17.  Media deduplication: whatever combination of imageUrl, images,    *)
(* snapshot.images, snapshot.cards, videoUrl, videos, snapshot.videos and  *)
(* media a raw record carries, the media list of its normalized Ad has no  *)
(* two entries with the same url.                                          *)
(***************************************************************************)
C17_NoDuplicateUrl ==
    nRaw # Null /\ nRaw.shape = "meta" =>
        \A k \in 1..Len(nOut) :
            \A i, j \in 1..Len(nOut[k].media) :
                nOut[k].media[i].url = nOut[k].media[j].url => i = j

\* the same, of the records that carry no videoUrl
C17_NoDuplicateUrlWithoutVideoUrl ==
    nRaw # Null /\ nRaw.shape = "meta" /\ ~Truthy(nRaw.raw.videoUrl) =>
        C17_NoDuplicateUrl


(***************************************************************************)
(* C18.  Ordering inside one request: on the cold path of either service   *)
(* the cache write and the truncation to maxAds come after every raw       *)
(* record of the dataset has been normalized and, in the Meta service,     *)
(* after findBestMatchingPage has returned from the full normalized set;   *)
(* a request that wrote the cache or returned fewer Ads than it found did  *)
(* run those statements.                                                   *)
(***************************************************************************)
StepsRun == IF hist = Null THEN <<>> ELSE hist.steps

\* statement number p of the request was preceded by statement s on all of
\* the dataset's records
AfterFull(p, s) ==
    \E q \in 1..(p - 1) :
        StepsRun[q].step = s /\ StepsRun[q].n = Len(rawAds.items)

NoStoredCache ==
    hist.file.kind \in {"missing", "corrupt"} \/ hist.file.root = "none"

\* the request saved an entry and the write of the file failed
WriteFailed ==
    /\ hist # Null /\ pc = "done" /\ mode = "cold" /\ hist.saves = 1
    /\ OwnEntries # hist.entries
    /\ cacheFile = hist.file

C19_StorageFailuresNotFatal ==
    /\ Accepted /\ NoStoredCache =>
          /\ mode = "cold" /\ cached = Null
          /\ actorInput.search \in {"name", "domain"}
    /\ WriteFailed =>
          /\ result.success
          /\ BrandSourceIs("discovered")
          /\ result.ads # <<>>

\* the first part, of the brands whose key is no member of Object.prototype
C19_StorageFailuresNotFatalOwnKeys ==
    Accepted /\ RequestKey \notin {Str_constructor, Str_proto} =>
        C19_StorageFailuresNotFatal


(***************************************************************************)
(* C20.  No identity match ends as not_verified, in both services: on a    *)
(* cache miss where the upstream returns records of which none carries an  *)
(* advertiser name related to the search term, fetchAdsByBrand returns     *)
(* success with ads = [] and brandSource 'not_verified' and leaves the     *)
(* cache as it was.                                                        *)
(***************************************************************************)
\* the advertiser names of the upstream records, as normalizeAd gives them
UpstreamNames ==
    LET ads == IF svc = "meta" THEN UpstreamAds
               ELSE GoogleNormalizeAll(rawAds.items, trim(req.brandName))
    IN  {ads[i].brandName : i \in 1..Len(ads)}

NoIdentityMatch ==
    /\ pc = "done" /\ Accepted /\ RequestKey \notin DOMAIN hist.entries
    /\ run # Null /\ run.status = "SUCCEEDED"
    /\ rawAds # Null /\ Len(rawAds.items) > 0
    /\ \A name \in UpstreamNames : ~NameRelated(name, trim(req.brandName))

C20_NoMatchNotVerified ==
    NoIdentityMatch =>
        /\ result.success
        /\ result.ads = <<>>
        /\ BrandSourceIs("not_verified")
        /\ CacheUntouched

\* the same, of the requests of MetaAdsService that searched by name
C20_MetaNoMatchNotVerified ==
    svc = "meta" /\ mode = "cold" => C20_NoMatchNotVerified

\* a Meta request found records of named pages, none related to the term
C20_MetaNoMatchReached ==
    svc = "meta" /\ mode = "cold" /\ NoIdentityMatch /\ Len(rawAds.items) >= 2


(***************************************************************************)
(* C21.  First writer wins under concurrent Google requests: when two      *)
(* fetchAdsByBrand requests for the same uncached brand overlap, both      *)
(* looking the key up before either saves, and both discover an            *)
(* advertiser, the cache entry of the key after both have finished is the  *)
(* one the first save wrote.                                               *)
(***************************************************************************)
BothDone == \A r \in Requests : cReqs[r].phase = "done"

\* both requests missed the cache for one key, and both saved
OverlappingSaves ==
    /\ cReqs # <<>> /\ BothDone
    /\ \A r \in Requests : cReqs[r].mode = "cold"
    /\ Len(cSaves) = 2 /\ cSaves[1].key = cSaves[2].key

C21_GoogleFirstSaveStays ==
    svc = "google" /\ OverlappingSaves =>
        advertisersCache.advertisers[cSaves[1].key].advertiserId = cSaves[1].id

\* the same, of the requests of MetaAdsService
C21_MetaFirstSaveStays ==
    svc = "meta" /\ OverlappingSaves =>
        brandsCache.brands[cSaves[1].key].pageId = cSaves[1].id

\* two Meta requests for one key resolved different pages
C21_MetaOverlapReached ==
    svc = "meta" /\ OverlappingSaves /\ cSaves[1].id # cSaves[2].id


(***************************************************************************)
(* C22.  Filter to identity in the Google service: on a cold fetch that    *)
(* returns brandSource 'discovered', every ad of the result has the        *)
(* advertiser id written to the cache for the search term; records of      *)
(* other advertisers in the upstream result are not returned.              *)
(***************************************************************************)
GoogleDiscovered ==
    /\ svc = "google" /\ pc = "done" /\ Accepted /\ mode = "cold"
    /\ result.success /\ BrandSourceIs("discovered")

C22_GoogleAdsOfSavedAdvertiser ==
    GoogleDiscovered =>
        /\ RequestKey \in DOMAIN GoogleAdvertisers
        /\ \A i \in 1..Len(result.ads) :
              result.ads[i].pageId = GoogleAdvertisers[RequestKey].advertiserId

\* the same of the Meta service: the ads of a discovered result are those
\* of the page in the cache
C22_MetaAdsOfSavedPage ==
    MetaDiscovered /\ mode = "cold" /\ BrandSourceIs("discovered") =>
        /\ RequestKey \in DOMAIN MetaBrands
        /\ \A i \in 1..Len(result.ads) :
              result.ads[i].pageId = MetaBrands[RequestKey].pageId


(***************************************************************************)
(* C23.  The cold search runs through the retry controller in both         *)
(* services: on a cache miss, a request whose first actor call throws a    *)
(* retryable network error makes a second call, and when that call and     *)
(* the dataset read succeed it returns success instead of a failure.       *)
(***************************************************************************)
\* the first actor call of a finished cold request threw a network error
FirstCallThrewNetwork ==
    /\ pc = "done" /\ mode = "cold"
    /\ Len(outcomes) >= 1
    /\ outcomes[1] = Throws("Error", {"network"})

C23_ColdSearchRetries ==
    FirstCallThrewNetwork =>
        /\ Len(outcomes) >= 2
        /\ (outcomes[2] = Returns("SUCCEEDED") /\ rawAds # Null) => result.success

\* the same, of the requests of MetaAdsService
C23_MetaColdSearchRetries ==
    svc = "meta" => C23_ColdSearchRetries

\* a Meta request succeeded on its second call
C23_MetaRetryReached ==
    /\ svc = "meta" /\ FirstCallThrewNetwork /\ Len(outcomes) = 2
    /\ result.success /\ BrandSourceIs("discovered")


(***************************************************************************)
(* C24.  Name tier dominates volume: the candidate findBestMatchingPage    *)
(* returns belongs to the highest name tier (exact, prefix, substring)     *)
(* present among the candidates that pass the name gate, whatever the ad   *)
(* counts; among the candidates of that tier it has the greatest ad count, *)
(* counts above 50 counting as 50, and is the first seen of those.         *)
(***************************************************************************)
\* the name tier of page p: 3 exact, 2 prefix, 1 substring, 0 unrelated
TierOfPage(p) ==
    LET n == toLowerCase(Or(rAds[FirstPosition(p)].brandName, <<>>))
        t == toLowerCase(rTerm)
    IN  IF n = t THEN 3
        ELSE IF startsWith(n, t) \/ startsWith(t, n) THEN 2
        ELSE IF includes(n, t) \/ includes(t, n) THEN 1
        ELSE 0

CountOfPage(p) == Cardinality({i \in 1..Len(rAds) : rAds[i].pageId = p})

CappedCountOfPage(p) == IF CountOfPage(p) > 50 THEN 50 ELSE CountOfPage(p)

C24_TierDominatesVolume ==
    rResult.state \in {"returned", "repeated"} =>
        IF rResult.value = Null
        THEN \A q \in ResolverPages : TierOfPage(q) = 0
        ELSE LET p == rResult.value.pageId
             IN  /\ p \in ResolverPages /\ TierOfPage(p) > 0
                 /\ \A q \in ResolverPages :
                       /\ TierOfPage(q) <= TierOfPage(p)
                       /\ TierOfPage(q) = TierOfPage(p) =>
                             /\ CappedCountOfPage(q) <= CappedCountOfPage(p)
                             /\ CappedCountOfPage(q) = CappedCountOfPage(p) =>
                                   FirstPosition(p) <= FirstPosition(q)

\* the page returned has 51 ads; a later page of its tier has more, and a
\* page of a lower tier has more
C24_Witness ==
    /\ rResult.state = "returned" /\ rResult.value # Null
    /\ LET p == rResult.value.pageId
       IN  /\ CountOfPage(p) = 51
           /\ \E q \in ResolverPages :
                 /\ TierOfPage(q) = TierOfPage(p) /\ CountOfPage(q) > CountOfPage(p)
                 /\ FirstPosition(q) > FirstPosition(p)
           /\ \E q \in ResolverPages :
                 /\ TierOfPage(q) > 0 /\ TierOfPage(q) < TierOfPage(p)
                 /\ CountOfPage(q) > CountOfPage(p)

(***************************************************************************)
(* C25.  Backoff schedule: the wait after the k-th failed attempt, which   *)
(* happens only for k < maxRetries, is min(baseDelayMs * 2^(k-1),          *)
(* maxDelayMs) when the failure is retryable and not a rate limit, and     *)
(* exactly twice that when it is a rate limit; so the former never exceeds *)
(* maxDelayMs and the latter never exceeds 2 * maxDelayMs.                 *)
(***************************************************************************)
\* baseDelayMs doubled k - 1 times
RECURSIVE DoubledDelay(_)
DoubledDelay(k) == IF k <= 1 THEN config.baseDelayMs ELSE 2 * DoubledDelay(k - 1)

ScheduledDelay(k) ==
    IF DoubledDelay(k) < config.maxDelayMs THEN DoubledDelay(k) ELSE config.maxDelayMs

C25_BackoffSchedule ==
    /\ Len(waits) <= Len(outcomes)
    /\ \A k \in 1..Len(waits) :
          LET error == CaughtError(outcomes[k], k)
          IN  /\ k < config.maxRetries
              /\ error # Null
              /\ IF isRateLimitError(error)
                 THEN /\ waits[k] = 2 * ScheduledDelay(k)
                      /\ waits[k] <= 2 * config.maxDelayMs
                 ELSE /\ isRetryableError(error)
                      /\ waits[k] = ScheduledDelay(k)
                      /\ waits[k] <= config.maxDelayMs

\* four waits: after a network error, after a rate limit below the cap, after
\* a rate limit at the cap, and after a run that timed out, at the cap
C25_Witness ==
    /\ Len(outcomes) >= 4
    /\ outcomes[1] = Throws("Error", {"network"})
    /\ outcomes[2] = Throws("Error", {"rate limit"})
    /\ outcomes[3] = Throws("Error", {"network", "429"})
    /\ outcomes[4] = Returns("TIMED-OUT")
    /\ waits = <<1000, 4000, 6000, 3000>>

(***************************************************************************)
(* C26.  Only a SUCCEEDED run yields a successful fetch: when the actor    *)
(* call of a fetchAdsByBrand request returned a run whose status is not    *)
(* SUCCEEDED, the dataset is not read and the request does not resolve     *)
(* with success = true.                                                    *)
(***************************************************************************)
\* the last actor call returned a run with a status other than SUCCEEDED
LastRunNotSucceeded ==
    /\ outcomes # <<>>
    /\ outcomes[Len(outcomes)].kind = "run"
    /\ outcomes[Len(outcomes)].status # "SUCCEEDED"

DatasetRead == rawAds # Null

C26_OnlySucceededYieldsSuccess ==
    (hist # Null /\ LastRunNotSucceeded) =>
        /\ ~DatasetRead
        /\ pc = "done" => ~result.success

\* the part the Google service keeps: any status but SUCCEEDED fails the
\* request with RUN_FAILED before the dataset is listed
C26_GoogleOnlySucceeded ==
    (svc = "google" /\ hist # Null /\ LastRunNotSucceeded) =>
        /\ ~DatasetRead
        /\ pc = "done" /\ ~result.success /\ result.errorCode = "RUN_FAILED"

\* the part the Meta service keeps: after a run that FAILED or TIMED-OUT the
\* dataset is not read and the request does not succeed
C26_MetaFailedRunFails ==
    (svc = "meta" /\ hist # Null /\ outcomes # <<>>
       /\ outcomes[Len(outcomes)] \in {Returns("FAILED"), Returns("TIMED-OUT")}) =>
        /\ ~DatasetRead
        /\ pc # "returned"
        /\ pc = "done" => ~result.success

\* a Meta request whose run came back RUNNING has read the dataset and
\* resolved with success = true
C26_MetaRunningSucceeds ==
    /\ svc = "meta" /\ pc = "done" /\ outcomes # <<>>
    /\ outcomes[Len(outcomes)] = Returns("RUNNING")
    /\ DatasetRead /\ result.success

\* as stated for the retry controller alone: the run runActorWithRetry
\* returns has status SUCCEEDED
C26_RetryReturnsOnlySucceeded ==
    pc = "returned" => run.status = "SUCCEEDED"

(***************************************************************************)
(* C27.  Result size bound on every Meta path: a fetchAdsByBrand request   *)
(* of the Meta service, whether it took the cached or the discovered path, *)
(* resolves with at most maxAds ads, maxAds being options.maxAds or, when  *)
(* that is absent, the configured default.                                 *)
(***************************************************************************)
C27_MetaResultSizeBound ==
    (svc = "meta" /\ pc = "done") =>
        Len(result.ads) <= EffectiveMaxAds(config, req.maxAds)

\* the part that holds: the search by name truncates to maxAds
C27_MetaColdSizeBound ==
    (svc = "meta" /\ pc = "done" /\ mode = "cold") =>
        Len(result.ads) <= EffectiveMaxAds(config, req.maxAds)

\* a cached request whose dataset held more than maxAds items has resolved
\* with all of them
C27_MetaCachedExceeds ==
    /\ svc = "meta" /\ pc = "done" /\ mode = "byId"
    /\ result.success /\ result.brandSource = "cached"
    /\ rawAds # Null
    /\ Len(result.ads) = Len(rawAds.items)
    /\ Len(result.ads) > EffectiveMaxAds(config, req.maxAds)

(***************************************************************************)
(* C28.  Write-through consistency on a failed save: when the file write   *)
(* of a saveBrandToCache call fails, the in-memory cache is left as it was *)
(* before the call; so after every save attempt the entries in memory are  *)
(* the entries of the cache file.                                          *)
(***************************************************************************)
\* a step that is a saveBrandToCache call whose writeFileSync threw
FailedMetaSave ==
    /\ svc = "meta" /\ cacheOp'.op = "save"
    /\ fileWrites' = fileWrites + 1
    /\ cacheFile' = cacheFile

\* the entries the Meta service would read from the cache file
FileBrands == loadBrandsCache(Null, cacheFile).brands

C28_FailedSaveLeavesMemory ==
    [][FailedMetaSave => MetaBrands' = MetaBrands]_vars

\* as stated for the state after a save attempt
C28_MemoryEqualsFile ==
    (svc = "meta" /\ cacheOp.op = "save") => MetaBrands = FileBrands

\* the part that holds: a save whose write succeeded leaves the same
\* entries in memory and in the file
C28_WrittenSaveConsistent ==
    [][(svc = "meta" /\ cacheOp'.op = "save" /\ cacheFile' # cacheFile)
          => MetaBrands' = FileBrands']_vars

\* a save attempt whose write failed has left in memory a key that the file
\* does not hold
C28_MemoryAheadOfFile ==
    /\ svc = "meta" /\ cacheOp.op = "save" /\ fileWrites > 0
    /\ NormalizeKey(cacheOp.term) \in DOMAIN MetaBrands
    /\ NormalizeKey(cacheOp.term) \notin DOMAIN FileBrands

(***************************************************************************)
(* C29.  No lost update inside one process: when two fetchAdsByBrand       *)
(* requests of one service overlap, each discovers a different brand key   *)
(* and each writes it, then after both have finished both keys are in the  *)
(* in-memory cache and in the cache file, and the entry count kept in the  *)
(* metadata (totalBrands; totalAdvertisers in the Google service) is the   *)
(* number of entries, in memory and in the file.                           *)
(***************************************************************************)
\* both requests have finished, each saved a key of its own, and both
\* writes went through
TwoKeysSaved ==
    /\ cReqs # <<>> /\ BothDone
    /\ Len(cSaves) = 2
    /\ cSaves[1].by # cSaves[2].by
    /\ cSaves[1].key # cSaves[2].key
    /\ cSaves[1].writeOk /\ cSaves[2].writeOk

\* the metadata count of the in-memory cache of the service
OwnMeta == IF svc = "meta" THEN brandsCache.meta ELSE advertisersCache.meta

C29_NoLostUpdate ==
    TwoKeysSaved =>
        /\ \A i \in 1..2 :
              /\ cSaves[i].key \in DOMAIN OwnEntries
              /\ EntryId(OwnEntries[cSaves[i].key]) = cSaves[i].id
              /\ Parses(cacheFile)
              /\ cSaves[i].key \in DOMAIN cacheFile.entries
              /\ EntryId(cacheFile.entries[cSaves[i].key]) = cSaves[i].id
        /\ OwnMeta = KeyCount(OwnEntries)
        /\ cacheFile.meta = KeyCount(cacheFile.entries)
        /\ cacheFile.entries = OwnEntries

\* the first save of two was made by a Meta request while the other request
\* was waiting on its actor run
C29_Witness ==
    /\ svc = "meta" /\ TwoKeysSaved
    /\ cSaves[1].during # {}
    /\ KeyCount(cacheFile.entries) = 2

\* the same for two overlapping requests of the Google service
C29_GoogleOverlapReached ==
    /\ svc = "google" /\ TwoKeysSaved
    /\ cSaves[1].during # {}
    /\ KeyCount(cacheFile.entries) = 2

(***************************************************************************)
(* C30.  The name gate is applied to the advertiser's own name: on the     *)
(* cold path of the Meta service a page whose raw records carry a page id  *)
(* but no page name (no pageName, page_name or snapshot.page_name) is      *)
(* never resolved as the verified identity and never written to the cache. *)
(***************************************************************************)
RawPageId(raw) == Or(raw.pageID, raw.page_id)

RawPageName(raw) == Or(Or(raw.pageName, raw.page_name), raw.snapshotPageName)

\* the pages of the dataset none of whose records carries a name
NamelessPages ==
    {RawPageId(rawAds.items[i]) :
        i \in {j \in 1..Len(rawAds.items) :
                 /\ Truthy(RawPageId(rawAds.items[j]))
                 /\ \A k \in 1..Len(rawAds.items) :
                       RawPageId(rawAds.items[k]) = RawPageId(rawAds.items[j])
                          => ~Truthy(RawPageName(rawAds.items[k]))}}

MetaColdDone ==
    /\ svc = "meta" /\ pc = "done" /\ mode = "cold" /\ hist # Null
    /\ rawAds # Null

C30_NamelessPageNotChosen ==
    MetaColdDone =>
        \A p \in NamelessPages :
           /\ hist.bestMatch = Null \/ hist.bestMatch.pageId # p
           /\ BrandSourceIs("discovered") =>
                 (RequestKey \in DOMAIN MetaBrands
                    => MetaBrands[RequestKey].pageId # p)

\* a page without any name was resolved under the search term and written
\* to the cache and the file
C30_NamelessPageSaved ==
    /\ MetaColdDone /\ BrandSourceIs("discovered")
    /\ hist.bestMatch # Null /\ hist.bestMatch.pageId \in NamelessPages
    /\ result.verifiedBrandName = trim(req.brandName)
    /\ hist.saves = 1
    /\ Parses(cacheFile) /\ RequestKey \in DOMAIN cacheFile.entries
    /\ cacheFile.entries[RequestKey].pageId \in NamelessPages

\* the part that holds: a page without any name, when it is resolved, is
\* resolved under the search term itself
C30_NamelessOnlyAsSearchTerm ==
    (MetaColdDone /\ hist.bestMatch # Null
       /\ hist.bestMatch.pageId \in NamelessPages) =>
        hist.bestMatch.pageName = trim(req.brandName)

====
